---- MODULE Spec2Model ----
(***************************************************************************)
(* A model of the PDF reader/editor: the annotation store of PDFDocument,  *)
(* the navigation, zoom and search state of PDFViewer together with its    *)
(* canvas display list, and the pointer-event handlers of PDFEditor.       *)
(*                                                                         *)
(* Every method of the program is an operator from a program state (a      *)
(* record holding the fields of the document, the viewer, the canvas and   *)
(* the editor) to the state it leaves behind plus its return value; every  *)
(* action of the model packs the variables into such a record, applies one *)
(* handler or public method as a whole, and commits the result.            *)
(***************************************************************************)
EXTENDS Integers, Sequences, FiniteSets, TLC

VARIABLES
    annotations,          \* PDFDocument.annotations: page -> sequence of annotations
    has_changes,          \* PDFDocument.has_changes
    file_path,            \* PDFDocument.file_path
    pdf_writer,           \* PDFDocument.pdf_writer (None or the pages copied into it)
    disk,                 \* the file system: path -> what was last written there
    current_page,         \* PDFViewer.current_page
    zoom_level,           \* PDFViewer.zoom_level (a rational)
    search_term,          \* PDFViewer.search_term
    search_results,       \* PDFViewer.search_results
    current_match,        \* PDFViewer.current_match
    canvas,               \* the Tk canvas display list, lowest item first
    canvas_size,          \* what canvas.winfo_width() and winfo_height() return
    view_y,               \* canvas.canvasy(0): the canvas line at the top of the window
    current_tool,         \* PDFEditor.current_tool
    drawing,              \* PDFEditor.drawing
    start_x,              \* PDFEditor.start_x
    start_y,              \* PDFEditor.start_y
    temp_item,            \* PDFEditor.temp_item
    drawing_points,       \* PDFEditor.drawing_points (Unset until the first Draw pointer-down)
    selected_annotation,  \* PDFEditor.selected_annotation
    selection_outline,    \* PDFEditor.selection_outline (Unset until the first outlined selection)
    second_view,          \* PDFReaderApp.second_document and second_viewer (None until
                          \* a file is opened for comparison)
    button,               \* the physical pointer button: "up" or "down"
    issued,               \* history: page -> set of ids add_annotation has returned
    last                  \* history: the last call, its arguments and what it returned,
                          \* the pointer-down position of the gesture under way and,
                          \* for a Draw gesture, its document points

vars == <<annotations, has_changes, file_path, pdf_writer, disk, current_page,
          zoom_level, search_term, search_results, current_match, canvas,
          canvas_size, view_y, current_tool, drawing, start_x, start_y, temp_item, drawing_points,
          selected_annotation, selection_outline, second_view, button, issued, last>>

-----------------------------------------------------------------------------
(* Bounds of the model.                                                    *)

\* Number of pages of the opened document.
PageCount == 2

\* An add is only attempted while the document holds fewer annotations than this.
MaxAnnots == 2

\* A Draw gesture is only continued while it has fewer points than this.
MaxPoints == 2

\* A gesture is only begun while the canvas holds fewer previews than this
\* (a preview that was left behind stays on the canvas until the next redraw).
MaxPreviews == 2

\* zoom_in / zoom_out are only attempted within this many steps of 100%.
MaxZoomSteps == 1

-----------------------------------------------------------------------------
(* Python values.                                                          *)

Pages == 0 .. (PageCount - 1)

Max(S) == CHOOSE x \in S : \A y \in S : y <= x
Min(S) == CHOOSE x \in S : \A y \in S : x <= y

RECURSIVE GCD(_, _)
GCD(a, b) == IF b = 0 THEN a ELSE GCD(b, a % b)

Absolute(n) == IF n < 0 THEN -n ELSE n

(* Python floats are modelled as exact rationals <<numerator, denominator>>, *)
(* kept in lowest terms with a positive denominator.                        *)
Rat(n, d) ==
    LET s == IF d < 0 THEN -1 ELSE 1
        g == GCD(Absolute(n), Absolute(d))
    IN  <<(s * n) \div g, (s * d) \div g>>

R(n) == <<n, 1>>
RAdd(a, b) == Rat(a[1] * b[2] + b[1] * a[2], a[2] * b[2])
RSub(a, b) == Rat(a[1] * b[2] - b[1] * a[2], a[2] * b[2])
RMul(a, b) == Rat(a[1] * b[1], a[2] * b[2])
RDiv(a, b) == Rat(a[1] * b[2], a[2] * b[1])
RLt(a, b) == a[1] * b[2] < b[1] * a[2]
RLe(a, b) == a[1] * b[2] <= b[1] * a[2]
RAbs(a) == <<Absolute(a[1]), a[2]>>
RMin(a, b) == IF RLt(b, a) THEN b ELSE a
RMax(a, b) == IF RLt(a, b) THEN b ELSE a
\* int(x) for x >= 0, and floor division by 2 of an integer
RInt(a) == a[1] \div a[2]

\* sorted([a, b])
Sorted2(a, b) == IF RLt(b, a) THEN <<b, a>> ELSE <<a, b>>

(* Strings that the program builds and takes apart are sequences of tokens. *)
Digits == <<"0", "1", "2", "3", "4", "5", "6", "7", "8", "9">>
Str(n) == Digits[n + 1]

StartsWith(s, prefix) ==
    /\ Len(s) >= Len(prefix)
    /\ SubSeq(s, 1, Len(prefix)) = prefix

\* s.split(sep, 1)[1]: what follows the first occurrence of the token sep
SplitAfterFirst(s, sep) ==
    LET i == Min({k \in 1 .. Len(s) : s[k] = sep})
    IN  SubSeq(s, i + 1, Len(s))

RECURSIVE SeqToSet(_)
SeqToSet(s) == IF s = <<>> THEN {} ELSE {Head(s)} \cup SeqToSet(Tail(s))

\* list.pop(i) for a 1-based position i
RemoveAt(s, i) == SubSeq(s, 1, i - 1) \o SubSeq(s, i + 1, Len(s))

-----------------------------------------------------------------------------
(* Program constants.                                                      *)

\* editor: a highlight or shape narrower or lower than this is not added
MinSize == 5

\* editor: half the side of the box that find_overlapping is asked about
HitRadius == 2

\* viewer: side of a comment's sticky-note icon at 100%
NoteSize == 20

\* viewer: margin that fit_to_width leaves
FitMargin == 20

\* viewer: zoom_level, min_zoom, max_zoom and zoom_step after construction
InitialZoom == R(1)
MinZoom == Rat(1, 4)
MaxZoomLevel == R(3)
ZoomStep == Rat(1, 10)

(* The environment: the document on disk, the window, the fonts.            *)

\* mediabox of each page of the opened file, and the default of get_page_dimensions
DefaultPageSize == <<612, 792>>
MediaBox(p) == IF p = 0 THEN <<612, 792>> ELSE <<595, 842>>

\* canvas.winfo_width(), canvas.winfo_height() of the window as it opens
CanvasSize == <<900, 700>>

\* extent of a rendered text annotation and of a comment's marker at 100%
TextExtent == <<30, 14>>
MarkerExtent == <<8, 12>>

OriginalPath == "original.pdf"
OtherPath == "copy.pdf"
Paths == {OriginalPath, OtherPath}

-----------------------------------------------------------------------------
(* Values of the optional fields.                                           *)

NoValue == <<>>              \* None
Some(x) == <<x>>
IsSome(o) == o /= <<>>
Get(o) == o[1]

\* A reference to a canvas item that was deleted: Tk never hands out an item
\* id twice, so such a reference matches no item for ever. Item ids start at 1.
StaleRef == Some(0)

-----------------------------------------------------------------------------
(* The program state as one record.                                         *)

St ==
    [annotations |-> annotations, has_changes |-> has_changes,
     file_path |-> file_path, pdf_writer |-> pdf_writer, disk |-> disk,
     current_page |-> current_page, zoom_level |-> zoom_level,
     search_term |-> search_term, search_results |-> search_results,
     current_match |-> current_match, canvas |-> canvas,
     canvas_size |-> canvas_size, view_y |-> view_y,
     current_tool |-> current_tool, drawing |-> drawing,
     start_x |-> start_x, start_y |-> start_y, temp_item |-> temp_item,
     drawing_points |-> drawing_points,
     selected_annotation |-> selected_annotation,
     selection_outline |-> selection_outline]

\* the result of a call: the state it leaves, what it returned, whether it raised
Result(s, ret) == [s |-> s, ret |-> ret, raised |-> FALSE]
Raised(s) == [s |-> s, ret |-> NoValue, raised |-> TRUE]

-----------------------------------------------------------------------------
(* PDFDocument: the annotation store.                                       *)

ValidPage(page_num) == 0 <= page_num /\ page_num < PageCount

\* f"annot_{page_num}_{n}"
FormatId(page_num, n) == <<"annot", "_", Str(page_num), "_", Str(n)>>

\* An annotation is the dict {id, type, data}. The field shared is not a key
\* of the dict: it records that data['points'] is the very list object that
\* PDFEditor.drawing_points refers to (add_drawing_annotation stores the
\* list it is given, not a copy).
Annotation(annotation_id, annotation_type, data, shared) ==
    [id |-> annotation_id, type |-> annotation_type, data |-> data,
     shared |-> shared]

add_annotation_shared(s, page_num, annotation_type, data, shared) ==
    IF ValidPage(page_num)
    THEN LET annotation_id == FormatId(page_num, Len(s.annotations[page_num]))
             annotation == Annotation(annotation_id, annotation_type, data, shared)
         IN  Result([s EXCEPT !.annotations[page_num] = Append(@, annotation),
                              !.has_changes = TRUE],
                    Some(annotation_id))
    ELSE Result(s, NoValue)

add_annotation(s, page_num, annotation_type, data) ==
    add_annotation_shared(s, page_num, annotation_type, data, FALSE)

\* dict.update
DictUpdate(d, e) ==
    [k \in (DOMAIN d) \cup (DOMAIN e) |-> IF k \in DOMAIN e THEN e[k] ELSE d[k]]

\* position of the first annotation of the page carrying the id, 0 if none
FindAnnotation(s, page_num, annotation_id) ==
    LET hits == {i \in 1 .. Len(s.annotations[page_num]) :
                    s.annotations[page_num][i].id = annotation_id}
    IN  IF hits = {} THEN 0 ELSE Min(hits)

\* update_annotation, had it assigned data instead of merging it
update_annotation_Replaces(s, page_num, annotation_id, data) ==
    IF ValidPage(page_num) /\ FindAnnotation(s, page_num, annotation_id) /= 0
    THEN LET i == FindAnnotation(s, page_num, annotation_id)
         IN  Result([s EXCEPT !.annotations[page_num][i].data = data,
                              !.has_changes = TRUE],
                    TRUE)
    ELSE Result(s, FALSE)

update_annotation(s, page_num, annotation_id, data) ==
    IF ValidPage(page_num) /\ FindAnnotation(s, page_num, annotation_id) /= 0
    THEN LET i == FindAnnotation(s, page_num, annotation_id)
         IN  Result([s EXCEPT !.annotations[page_num][i].data = DictUpdate(@, data),
                              !.annotations[page_num][i].shared =
                                  IF "points" \in DOMAIN data THEN FALSE ELSE @,
                              !.has_changes = TRUE],
                    TRUE)
    ELSE Result(s, FALSE)

\* delete_annotation, had it set has_changes outside the test of the page
delete_annotation_MarksAlways(s, page_num, annotation_id) ==
    IF ValidPage(page_num) /\ FindAnnotation(s, page_num, annotation_id) /= 0
    THEN LET i == FindAnnotation(s, page_num, annotation_id)
         IN  Result([s EXCEPT !.annotations[page_num] = RemoveAt(@, i),
                              !.has_changes = TRUE],
                    TRUE)
    ELSE Result([s EXCEPT !.has_changes = TRUE], FALSE)

delete_annotation(s, page_num, annotation_id) ==
    IF ValidPage(page_num) /\ FindAnnotation(s, page_num, annotation_id) /= 0
    THEN LET i == FindAnnotation(s, page_num, annotation_id)
         IN  Result([s EXCEPT !.annotations[page_num] = RemoveAt(@, i),
                              !.has_changes = TRUE],
                    TRUE)
    ELSE Result(s, FALSE)

get_annotations(s, page_num) ==
    IF ValidPage(page_num) THEN s.annotations[page_num] ELSE <<>>

\* get_page_dimensions, had its default been A4 instead of letter
get_page_dimensions_DefaultA4(page_num) ==
    IF ValidPage(page_num) THEN MediaBox(page_num) ELSE <<595, 842>>

get_page_dimensions(page_num) ==
    IF ValidPage(page_num) THEN MediaBox(page_num) ELSE DefaultPageSize

\* The writer holds a copy of every page of the reader; nothing of the
\* annotations is put on the pages.
_apply_annotations(s) ==
    [s EXCEPT !.pdf_writer =
        Some([p \in Pages |-> [page |-> p, annotations |-> <<>>]])]

\* with open(path, 'wb') as f: pdf_writer.write(f). The file system decides:
\* "ok", "open_fails" (the file is left as it was) or "write_fails" (the file
\* was already truncated by open).
IoOutcomes == {"ok", "open_fails", "write_fails"}

\* a file: "original" (the PDF that was opened), "absent", "truncated", or
\* "written" with the pages the writer held
File(state, pages) == [state |-> state, pages |-> pages]

WriteFile(s, path, io) ==
    CASE io = "ok" -> [s EXCEPT !.disk[path] = File("written", Get(s.pdf_writer))]
      [] io = "write_fails" -> [s EXCEPT !.disk[path] = File("truncated", <<>>)]
      [] OTHER -> s

save(s, io) ==
    IF ~s.has_changes
    THEN Result(s, NoValue)
    ELSE LET a == _apply_annotations(s)
             w == WriteFile(a, a.file_path, io)
         IN  IF io = "ok" THEN Result(w, NoValue) ELSE Raised(w)

\* save_as, had it adopted the new path and cleared the flag before writing
save_as_AdoptsFirst(s, output_path, io) ==
    LET a == [_apply_annotations(s) EXCEPT !.file_path = output_path,
                                           !.has_changes = FALSE]
        w == WriteFile(a, output_path, io)
    IN  IF io = "ok" THEN Result(w, NoValue) ELSE Raised(w)

save_as(s, output_path, io) ==
    LET a == _apply_annotations(s)
        w == WriteFile(a, output_path, io)
    IN  IF io = "ok"
        THEN Result([w EXCEPT !.file_path = output_path,
                              !.has_changes = FALSE],
                    NoValue)
        ELSE Raised(w)

-----------------------------------------------------------------------------
(* The Tk canvas: a display list of items, lowest first. An item carries   *)
(* its id, its kind, its coordinates as canvas.coords returns them, its    *)
(* tags and whether it is filled. Colours, stipples, fonts and line widths *)
(* do not decide what a pointer position hits and are left out.            *)

Item(id, kind, coords, tags, fill, extent) ==
    [id |-> id, kind |-> kind, coords |-> coords, tags |-> tags,
     fill |-> fill, extent |-> extent]

NoExtent == <<R(0), R(0)>>

ItemIds(s) == {s.canvas[i].id : i \in 1 .. Len(s.canvas)}

RefIds(s) ==
    {Get(r) : r \in {x \in {s.temp_item, s.selection_outline} : IsSome(x)}}
    \cup (IF IsSome(s.selected_annotation)
          THEN {Get(s.selected_annotation).item} ELSE {})

\* the id the next canvas.create_* returns
NewId(s) == 1 + Max({0} \cup ItemIds(s) \cup RefIds(s))

CanvasCreate(s, kind, coords, tags, fill, extent) ==
    [s EXCEPT !.canvas = Append(@, Item(NewId(s), kind, coords, tags, fill, extent))]

\* canvas.delete(ref): nothing happens when ref is None or matches no item
CanvasDelete(s, ref) ==
    [s EXCEPT !.canvas =
        SelectSeq(@, LAMBDA it : ~(IsSome(ref) /\ it.id = Get(ref)))]

\* canvas.coords(ref, ...): move an item; nothing happens when none matches
CanvasSetCoords(s, ref, coords) ==
    [s EXCEPT !.canvas =
        [i \in 1 .. Len(@) |->
            IF IsSome(ref) /\ @[i].id = Get(ref)
            THEN [@[i] EXCEPT !.coords = coords] ELSE @[i]]]

ItemAt(s, id) ==
    s.canvas[CHOOSE i \in 1 .. Len(s.canvas) : s.canvas[i].id = id]

\* the area an item covers, as <<x1, y1, x2, y2>> with x1 <= x2, y1 <= y2
\* (canvas.bbox without the pixel of slack Tk adds)
RECURSIVE MinOf(_, _, _)
MinOf(c, i, acc) ==
    IF i > Len(c) THEN acc ELSE MinOf(c, i + 2, RMin(acc, c[i]))
RECURSIVE MaxOf(_, _, _)
MaxOf(c, i, acc) ==
    IF i > Len(c) THEN acc ELSE MaxOf(c, i + 2, RMax(acc, c[i]))

BBox(it) ==
    CASE it.kind = "text" /\ <<"text_box">> \in SeqToSet(it.tags) ->
            \* anchor NW
            <<it.coords[1], it.coords[2],
              RAdd(it.coords[1], it.extent[1]), RAdd(it.coords[2], it.extent[2])>>
      [] it.kind = "text" ->
            \* anchor CENTER
            <<RSub(it.coords[1], RDiv(it.extent[1], R(2))),
              RSub(it.coords[2], RDiv(it.extent[2], R(2))),
              RAdd(it.coords[1], RDiv(it.extent[1], R(2))),
              RAdd(it.coords[2], RDiv(it.extent[2], R(2)))>>
      [] it.kind = "image" ->
            <<it.coords[1], it.coords[2],
              RAdd(it.coords[1], it.extent[1]), RAdd(it.coords[2], it.extent[2])>>
      [] OTHER ->
            <<MinOf(it.coords, 1, it.coords[1]), MinOf(it.coords, 2, it.coords[2]),
              MaxOf(it.coords, 1, it.coords[1]), MaxOf(it.coords, 2, it.coords[2])>>

BoxesMeet(a, b) ==
    /\ RLe(a[1], b[3]) /\ RLe(b[1], a[3])
    /\ RLe(a[2], b[4]) /\ RLe(b[2], a[4])

\* a lies strictly inside b
BoxInside(a, b) ==
    /\ RLt(b[1], a[1]) /\ RLt(a[3], b[3])
    /\ RLt(b[2], a[2]) /\ RLt(a[4], b[4])

\* Does the item overlap the area? A filled item covers its whole box; an
\* unfilled rectangle or oval is only its outline; a line is met when the
\* area meets the box of one of its segments.
Overlaps(it, area) ==
    CASE it.kind = "line" ->
            \E k \in 0 .. ((Len(it.coords) \div 2) - 2) :
                BoxesMeet(
                    <<RMin(it.coords[2 * k + 1], it.coords[2 * k + 3]),
                      RMin(it.coords[2 * k + 2], it.coords[2 * k + 4]),
                      RMax(it.coords[2 * k + 1], it.coords[2 * k + 3]),
                      RMax(it.coords[2 * k + 2], it.coords[2 * k + 4])>>, area)
      [] it.kind \in {"rectangle", "oval"} /\ ~it.fill ->
            BoxesMeet(BBox(it), area) /\ ~BoxInside(area, BBox(it))
      [] OTHER -> BoxesMeet(BBox(it), area)

\* canvas.find_overlapping: the items that overlap the area, in stacking
\* order, lowest first
find_overlapping(s, x1, y1, x2, y2) ==
    SelectSeq(s.canvas, LAMBDA it : Overlaps(it, <<x1, y1, x2, y2>>))

-----------------------------------------------------------------------------
(* PDFViewer: rendering the current page and its annotations.              *)

ImageItem(s) ==
    s.canvas[CHOOSE i \in 1 .. Len(s.canvas) : s.canvas[i].kind = "image"]

\* canvas.coords(self.page_image_id)
PageOffset(s) == <<ImageItem(s).coords[1], ImageItem(s).coords[2]>>

\* render_page: the image is int(dim * scale) wide and high
RenderSize(page_num, scale) ==
    <<RInt(RMul(R(get_page_dimensions(page_num)[1]), scale)),
      RInt(RMul(R(get_page_dimensions(page_num)[2]), scale))>>

\* center_page: where the page image is put
CenterPosition(s, image_size) ==
    <<Max({0, (s.canvas_size[1] - image_size[1]) \div 2}),
      Max({0, (s.canvas_size[2] - image_size[2]) \div 2})>>

\* f"annotation:{annotation_id}"
AnnotationTag(annotation_id) == <<"annotation", ":">> \o annotation_id

Scaled(s, v, offset) == RAdd(RMul(v, s.zoom_level), offset)

_display_highlight(s, data, annotation_id) ==
    LET o == PageOffset(s)
    IN  CanvasCreate(s, "rectangle",
            <<Scaled(s, data.x1, o[1]), Scaled(s, data.y1, o[2]),
              Scaled(s, data.x2, o[1]), Scaled(s, data.y2, o[2])>>,
            <<AnnotationTag(annotation_id), <<"highlight">>>>, TRUE, NoExtent)

_display_text_box(s, data, annotation_id) ==
    LET o == PageOffset(s)
    IN  CanvasCreate(s, "text",
            <<Scaled(s, data.x, o[1]), Scaled(s, data.y, o[2])>>,
            <<AnnotationTag(annotation_id), <<"text_box">>>>, TRUE,
            <<RMul(R(TextExtent[1]), s.zoom_level),
              RMul(R(TextExtent[2]), s.zoom_level)>>)

RECURSIVE ScalePoints(_, _, _)
ScalePoints(s, points, o) ==
    IF points = <<>> THEN <<>>
    ELSE <<Scaled(s, Head(points)[1], o[1]), Scaled(s, Head(points)[2], o[2])>>
         \o ScalePoints(s, Tail(points), o)

_display_drawing(s, data, annotation_id) ==
    IF data.points = <<>> THEN s
    ELSE CanvasCreate(s, "line", ScalePoints(s, data.points, PageOffset(s)),
            <<AnnotationTag(annotation_id), <<"drawing">>>>, FALSE, NoExtent)

_display_shape(s, data, annotation_id) ==
    LET o == PageOffset(s)
        c == <<Scaled(s, data.x1, o[1]), Scaled(s, data.y1, o[2]),
               Scaled(s, data.x2, o[1]), Scaled(s, data.y2, o[2])>>
    IN  CASE data.shape_type = "rectangle" ->
                CanvasCreate(s, "rectangle", c,
                    <<AnnotationTag(annotation_id), <<"shape">>, <<"rectangle">>>>,
                    FALSE, NoExtent)
          [] data.shape_type = "oval" ->
                CanvasCreate(s, "oval", c,
                    <<AnnotationTag(annotation_id), <<"shape">>, <<"oval">>>>,
                    FALSE, NoExtent)
          [] data.shape_type = "arrow" ->
                CanvasCreate(s, "line", c,
                    <<AnnotationTag(annotation_id), <<"shape">>, <<"arrow">>>>,
                    FALSE, NoExtent)
          [] OTHER -> s

_display_comment(s, data, annotation_id) ==
    LET o == PageOffset(s)
        x == Scaled(s, data.x, o[1])
        y == Scaled(s, data.y, o[2])
        note_size == RMul(R(NoteSize), s.zoom_level)
        icon == CanvasCreate(s, "rectangle",
                    <<x, y, RAdd(x, note_size), RAdd(y, note_size)>>,
                    <<AnnotationTag(annotation_id), <<"comment">>, <<"note_icon">>>>,
                    TRUE, NoExtent)
    IN  CanvasCreate(icon, "text",
            <<RAdd(x, RDiv(note_size, R(2))), RAdd(y, RDiv(note_size, R(2)))>>,
            <<AnnotationTag(annotation_id), <<"comment">>, <<"note_marker">>>>,
            TRUE, <<R(MarkerExtent[1]), R(MarkerExtent[2])>>)

DisplayOne(s, annotation) ==
    CASE annotation.type = "highlight" ->
            _display_highlight(s, annotation.data, annotation.id)
      [] annotation.type = "text" ->
            _display_text_box(s, annotation.data, annotation.id)
      [] annotation.type = "drawing" ->
            _display_drawing(s, annotation.data, annotation.id)
      [] annotation.type = "shape" ->
            _display_shape(s, annotation.data, annotation.id)
      [] annotation.type = "comment" ->
            _display_comment(s, annotation.data, annotation.id)
      [] OTHER -> s

RECURSIVE DisplayFrom(_, _, _)
DisplayFrom(s, list, i) ==
    IF i > Len(list) THEN s ELSE DisplayFrom(DisplayOne(s, list[i]), list, i + 1)

display_annotations(s) ==
    DisplayFrom(s, get_annotations(s, s.current_page), 1)

\* update_scroll_region: the scroll region is as high as the larger of the
\* canvas and the page image, and Tk keeps the view inside it
update_scroll_region(s) ==
    LET scroll_height == Max({s.canvas_size[2], RInt(ImageItem(s).extent[2])})
    IN  [s EXCEPT !.view_y = Max({0, Min({@, scroll_height - s.canvas_size[2]})})]

\* canvas.delete("all"), the page image centered, then the annotations
display_current_page(s) ==
    LET size == RenderSize(s.current_page, s.zoom_level)
        pos == CenterPosition(s, size)
        cleared == [s EXCEPT !.canvas = <<>>]
        image == CanvasCreate(cleared, "image", <<R(pos[1]), R(pos[2])>>, <<>>,
                              TRUE, <<R(size[1]), R(size[2])>>)
    IN  display_annotations(update_scroll_region(image))

\* canvas.yview_scroll(direction, "units"): a unit is a tenth of the height
\* of the window; direction is -1 (wheel up) or 1 (wheel down)
on_mouse_wheel(s, direction) ==
    Result(update_scroll_region(
               [s EXCEPT !.view_y = @ + direction * (s.canvas_size[2] \div 10)]),
           NoValue)

\* The canvas was resized to size: the page image is centered again; the
\* items of the annotations stay where they are.
on_canvas_configure(s, size) ==
    LET a == [s EXCEPT !.canvas_size = size]
        image == ImageItem(a)
        pos == CenterPosition(a, <<RInt(image.extent[1]), RInt(image.extent[2])>>)
    IN  Result(CanvasSetCoords(update_scroll_region(a), Some(image.id),
                               <<R(pos[1]), R(pos[2])>>), NoValue)

-----------------------------------------------------------------------------
(* PDFViewer: navigation, zoom, search.                                     *)

ResetSearch(s) == [s EXCEPT !.search_results = <<>>, !.current_match = -1]

previous_page(s) ==
    IF s.current_page > 0
    THEN Result(ResetSearch(display_current_page(
                    [s EXCEPT !.current_page = @ - 1])), TRUE)
    ELSE Result(s, FALSE)

next_page(s) ==
    IF s.current_page < PageCount - 1
    THEN Result(ResetSearch(display_current_page(
                    [s EXCEPT !.current_page = @ + 1])), TRUE)
    ELSE Result(s, FALSE)

\* go_to_page, had its upper bound been inclusive
go_to_page_BoundOffByOne(s, page_num) ==
    IF 0 <= page_num /\ page_num <= PageCount
    THEN Result(ResetSearch(display_current_page(
                    [s EXCEPT !.current_page = page_num])), TRUE)
    ELSE Result(s, FALSE)

go_to_page(s, page_num) ==
    IF ValidPage(page_num)
    THEN Result(ResetSearch(display_current_page(
                    [s EXCEPT !.current_page = page_num])), TRUE)
    ELSE Result(s, FALSE)

\* zoom_in, had it added the step without taking the minimum with max_zoom
zoom_in_Unclamped(s) ==
    IF RLt(s.zoom_level, MaxZoomLevel)
    THEN Result(display_current_page(
            [s EXCEPT !.zoom_level = RAdd(@, ZoomStep)]), TRUE)
    ELSE Result(s, FALSE)

zoom_in(s) ==
    IF RLt(s.zoom_level, MaxZoomLevel)
    THEN Result(display_current_page(
            [s EXCEPT !.zoom_level = RMin(RAdd(@, ZoomStep), MaxZoomLevel)]), TRUE)
    ELSE Result(s, FALSE)

zoom_out(s) ==
    IF RLt(MinZoom, s.zoom_level)
    THEN Result(display_current_page(
            [s EXCEPT !.zoom_level = RMax(RSub(@, ZoomStep), MinZoom)]), TRUE)
    ELSE Result(s, FALSE)

\* set_zoom, had it discarded the annotations of the page it redraws
set_zoom_DropsAnnotations(s, zoom) ==
    IF RLe(MinZoom, zoom) /\ RLe(zoom, MaxZoomLevel)
    THEN Result(display_current_page(
            [s EXCEPT !.zoom_level = zoom, !.annotations[s.current_page] = <<>>]), TRUE)
    ELSE Result(s, FALSE)

set_zoom(s, zoom) ==
    IF RLe(MinZoom, zoom) /\ RLe(zoom, MaxZoomLevel)
    THEN Result(display_current_page([s EXCEPT !.zoom_level = zoom]), TRUE)
    ELSE Result(s, FALSE)

fit_to_width(s) ==
    LET page_width == get_page_dimensions(s.current_page)[1]
        canvas_width == s.canvas_size[1]
        zoom == Rat(canvas_width - FitMargin, page_width)
    IN  set_zoom(s, RMax(RMin(zoom, MaxZoomLevel), MinZoom))

actual_size(s) == set_zoom(s, R(1))

\* The text of the pages of the opened file, as extract_text returns it.
PageText(p) ==
    <<"Page">> \o (IF p = PageCount - 1 THEN <<"Last">> ELSE <<>>)
               \o (IF p % 2 = 1 THEN <<"Odd">> ELSE <<>>)

\* str.lower on the words that occur
Lower(w) ==
    CASE w = "Page" -> "page" [] w = "Last" -> "last" [] w = "Odd" -> "odd"
      [] w = "LAST" -> "last" [] OTHER -> w

SearchTerms == {"page", "LAST", "odd", "absent"}

\* PDFDocument.search_text, had its except clause reported a match
document_search_text_MatchesOnError(page_num, term, unreadable) ==
    /\ ValidPage(page_num)
    /\ \/ page_num \in unreadable
       \/ \E i \in 1 .. Len(PageText(page_num)) :
              Lower(PageText(page_num)[i]) = Lower(term)

\* PDFDocument.search_text: search_term.lower() in text.lower(). unreadable
\* are the pages whose extract_text raises: the exception is caught and the
\* method falls through to return False.
document_search_text(page_num, term, unreadable) ==
    /\ ValidPage(page_num)
    /\ page_num \notin unreadable
    /\ \E i \in 1 .. Len(PageText(page_num)) : Lower(PageText(page_num)[i]) = Lower(term)

\* next_match, had it stepped the cursor before looking at the result list
next_match_StepsFirst(s) ==
    IF s.search_results = <<>>
    THEN Result([s EXCEPT !.current_match = @ + 1], FALSE)
    ELSE LET m == (s.current_match + 1) % Len(s.search_results)
             page_with_match == s.search_results[m + 1]
             moved == [s EXCEPT !.current_match = m]
         IN  IF page_with_match /= s.current_page
             THEN Result(go_to_page(moved, page_with_match).s, TRUE)
             ELSE Result(moved, TRUE)

next_match(s) ==
    IF s.search_results = <<>>
    THEN Result(s, FALSE)
    ELSE LET m == (s.current_match + 1) % Len(s.search_results)
             page_with_match == s.search_results[m + 1]
             moved == [s EXCEPT !.current_match = m]
         IN  IF page_with_match /= s.current_page
             THEN Result(go_to_page(moved, page_with_match).s, TRUE)
             ELSE Result(moved, TRUE)

previous_match(s) ==
    IF s.search_results = <<>>
    THEN Result(s, FALSE)
    ELSE LET m == (s.current_match - 1) % Len(s.search_results)
             page_with_match == s.search_results[m + 1]
             moved == [s EXCEPT !.current_match = m]
         IN  IF page_with_match /= s.current_page
             THEN Result(go_to_page(moved, page_with_match).s, TRUE)
             ELSE Result(moved, TRUE)

RECURSIVE OtherMatches(_, _, _, _)
OtherMatches(i, current, term, unreadable) ==
    IF i >= PageCount THEN <<>>
    ELSE (IF i /= current /\ document_search_text(i, term, unreadable)
          THEN <<i>> ELSE <<>>)
         \o OtherMatches(i + 1, current, term, unreadable)

\* search_text, had it returned without going to the first result
search_text_StaysPut(s, term, unreadable) ==
    LET first == IF document_search_text(s.current_page, term, unreadable)
                 THEN <<s.current_page>> ELSE <<>>
        found == [s EXCEPT !.search_term = term,
                           !.search_results =
                               first \o OtherMatches(0, s.current_page, term, unreadable),
                           !.current_match = -1]
    IN  Result(found, found.search_results /= <<>>)

search_text(s, term, unreadable) ==
    LET first == IF document_search_text(s.current_page, term, unreadable)
                 THEN <<s.current_page>> ELSE <<>>
        found == [s EXCEPT !.search_term = term,
                           !.search_results =
                               first \o OtherMatches(0, s.current_page, term, unreadable),
                           !.current_match = -1]
    IN  IF found.search_results /= <<>>
        THEN Result(next_match(found).s, TRUE)
        ELSE Result(found, FALSE)

-----------------------------------------------------------------------------
(* PDFEditor.                                                               *)

Tools == {"view", "highlight", "text", "draw", "shapes", "comment"}

\* An event carries the device position <<x, y>> of the pointer.
get_page_coordinates(s, event) ==
    LET o == PageOffset(s)
    IN  <<RDiv(RSub(R(event[1]), o[1]), s.zoom_level),
          RDiv(RSub(R(event[2]), o[2]), s.zoom_level)>>

\* clear_selection, had it removed the outline and kept the selection
clear_selection_KeepsRecord(s) ==
    IF IsSome(s.selection_outline)
    THEN [CanvasDelete(s, s.selection_outline) EXCEPT !.selection_outline = NoValue]
    ELSE s

clear_selection(s) ==
    LET a == [s EXCEPT !.selected_annotation = NoValue]
    IN  IF IsSome(a.selection_outline)
        THEN [CanvasDelete(a, a.selection_outline) EXCEPT !.selection_outline = NoValue]
        ELSE a

\* set_tool, had it left the selection alone
set_tool_KeepsSelection(s, tool_name) == [s EXCEPT !.current_tool = tool_name]

set_tool(s, tool_name) ==
    clear_selection([s EXCEPT !.current_tool = tool_name])

\* the id in the first tag that starts with "annotation:", if any
RECURSIVE TagId(_)
TagId(tags) ==
    IF tags = <<>> THEN NoValue
    ELSE IF StartsWith(Head(tags), <<"annotation", ":">>)
         THEN Some(SplitAfterFirst(Head(tags), ":"))
         ELSE TagId(Tail(tags))

IsAnnotationItem(it) == IsSome(TagId(it.tags)) /\ Get(TagId(it.tags)) /= <<>>

HasTag(it, name) == \E i \in 1 .. Len(it.tags) : it.tags[i] = <<name>>

\* which of the overlapping items the loop of select_annotation_at takes:
\* the first of the list that carries an annotation tag
PickItem(items) ==
    LET hits == {i \in 1 .. Len(items) : IsAnnotationItem(items[i])}
    IN  IF hits = {} THEN NoValue ELSE Some(items[Min(hits)])

select_annotation_at(s, x, y) ==
    LET a == clear_selection(s)
        items == find_overlapping(a, R(x - HitRadius), R(y - HitRadius),
                                     R(x + HitRadius), R(y + HitRadius))
        pick == PickItem(items)
    IN  IF ~IsSome(pick) THEN Result(a, FALSE)
        ELSE LET item == Get(pick)
                 sel == [a EXCEPT !.selected_annotation =
                            Some([id |-> Get(TagId(item.tags)), item |-> item.id,
                                  tags |-> item.tags])]
             IN  IF HasTag(item, "rectangle") \/ HasTag(item, "highlight")
                 THEN Result([CanvasCreate(sel, "rectangle", item.coords,
                                  <<<<"selection_marker">>>>, FALSE, NoExtent)
                              EXCEPT !.selection_outline = Some(NewId(sel))], TRUE)
                 ELSE IF HasTag(item, "text_box") \/ HasTag(item, "comment")
                 THEN Result([CanvasCreate(sel, "rectangle", BBox(item),
                                  <<<<"selection_marker">>>>, FALSE, NoExtent)
                              EXCEPT !.selection_outline = Some(NewId(sel))], TRUE)
                 ELSE Result(sel, TRUE)

is_over_annotation(s, x, y) ==
    LET items == find_overlapping(s, R(x - HitRadius), R(y - HitRadius),
                                     R(x + HitRadius), R(y + HitRadius))
    IN  \E i \in 1 .. Len(items) :
            \E k \in 1 .. Len(items[i].tags) :
                StartsWith(items[i].tags[k], <<"annotation", ":">>)

add_highlight_annotation(s, x1, y1, x2, y2) ==
    IF RLt(RAbs(RSub(x2, x1)), R(MinSize)) \/ RLt(RAbs(RSub(y2, y1)), R(MinSize))
    THEN Result(s, NoValue)
    ELSE LET data == [x1 |-> x1, y1 |-> y1, x2 |-> x2, y2 |-> y2, color |-> "yellow"]
             r == add_annotation(s, s.current_page, "highlight", data)
         IN  Result(display_current_page(r.s), r.ret)

\* add_text_annotation, had it added to the first page instead of the current
add_text_annotation_FirstPage(s, x, y, text) ==
    LET data == [x |-> x, y |-> y, text |-> text, color |-> "black",
                 font |-> "Arial", font_size |-> 12, anchor |-> "nw"]
        r == add_annotation(s, 0, "text", data)
    IN  Result(display_current_page(r.s), r.ret)

add_text_annotation(s, x, y, text) ==
    LET data == [x |-> x, y |-> y, text |-> text, color |-> "black",
                 font |-> "Arial", font_size |-> 12, anchor |-> "nw"]
        r == add_annotation(s, s.current_page, "text", data)
    IN  Result(display_current_page(r.s), r.ret)

\* is_drawing_points: the list passed is self.drawing_points itself, as in
\* on_mouse_up, and not a list of the caller's own
add_drawing_annotation(s, points, is_drawing_points) ==
    LET data == [points |-> points, color |-> "#FF0000", width |-> 2, smooth |-> TRUE]
        r == add_annotation_shared(s, s.current_page, "drawing", data, is_drawing_points)
    IN  Result(display_current_page(r.s), r.ret)

add_shape_annotation(s, x1, y1, x2, y2, shape_type) ==
    IF shape_type /= "arrow"
       /\ (RLt(RAbs(RSub(x2, x1)), R(MinSize)) \/ RLt(RAbs(RSub(y2, y1)), R(MinSize)))
    THEN Result(s, NoValue)
    ELSE LET data == [x1 |-> x1, y1 |-> y1, x2 |-> x2, y2 |-> y2,
                      shape_type |-> shape_type, color |-> "#FF0000", line_width |-> 2]
             r == add_annotation(s, s.current_page, "shape", data)
         IN  Result(display_current_page(r.s), r.ret)

add_comment_annotation(s, x, y, text) ==
    LET data == [x |-> x, y |-> y, text |-> text, color |-> "yellow"]
        r == add_annotation(s, s.current_page, "comment", data)
    IN  Result(display_current_page(r.s), r.ret)

\* self.drawing_points = [point]: a new list, which no annotation shares
NewDrawingPoints(s, point) ==
    [s EXCEPT !.drawing_points = Some(<<point>>),
              !.annotations =
                  [p \in DOMAIN @ |->
                      [i \in 1 .. Len(@[p]) |-> [@[p][i] EXCEPT !.shared = FALSE]]]]

\* self.drawing_points.append(point): every annotation whose data['points']
\* is that list sees the new point
AppendDrawingPoint(s, point) ==
    [s EXCEPT !.drawing_points = Some(Append(Get(@), point)),
              !.annotations =
                  [p \in DOMAIN @ |->
                      [i \in 1 .. Len(@[p]) |->
                          IF @[p][i].shared
                          THEN [@[p][i] EXCEPT !.data.points = Append(@, point)]
                          ELSE @[p][i]]]]

\* answer: what simpledialog.askstring returns (None when cancelled)
on_mouse_down(s, event, answer) ==
    CASE s.current_tool = "view" ->
            Result(select_annotation_at(s, event[1], event[2]).s, NoValue)
      [] s.current_tool = "highlight" ->
            LET a == clear_selection(s)
                start == get_page_coordinates(a, event)
                b == [a EXCEPT !.drawing = TRUE, !.start_x = start[1], !.start_y = start[2]]
            IN  Result([CanvasCreate(b, "rectangle",
                            <<R(event[1]), R(event[2]), R(event[1]), R(event[2])>>,
                            <<<<"temp_annotation">>>>, TRUE, NoExtent)
                        EXCEPT !.temp_item = Some(NewId(b))], NoValue)
      [] s.current_tool = "text" ->
            LET a == clear_selection(s)
                page == get_page_coordinates(a, event)
            IN  IF IsSome(answer) /\ Get(answer) /= ""
                THEN Result(add_text_annotation(a, page[1], page[2], Get(answer)).s, NoValue)
                ELSE Result(a, NoValue)
      [] s.current_tool = "draw" ->
            LET a == clear_selection(s)
                page == get_page_coordinates(a, event)
                b == NewDrawingPoints([a EXCEPT !.drawing = TRUE], page)
                o == PageOffset(b)
                scaled_x == Scaled(b, page[1], o[1])
                scaled_y == Scaled(b, page[2], o[2])
            IN  Result([CanvasCreate(b, "line",
                            <<scaled_x, scaled_y, scaled_x, scaled_y>>,
                            <<<<"temp_annotation">>>>, FALSE, NoExtent)
                        EXCEPT !.temp_item = Some(NewId(b))], NoValue)
      [] s.current_tool = "shapes" ->
            LET a == clear_selection(s)
                start == get_page_coordinates(a, event)
                b == [a EXCEPT !.drawing = TRUE, !.start_x = start[1], !.start_y = start[2]]
            IN  Result([CanvasCreate(b, "rectangle",
                            <<R(event[1]), R(event[2]), R(event[1]), R(event[2])>>,
                            <<<<"temp_annotation">>>>, FALSE, NoExtent)
                        EXCEPT !.temp_item = Some(NewId(b))], NoValue)
      [] s.current_tool = "comment" ->
            LET a == clear_selection(s)
                page == get_page_coordinates(a, event)
            IN  IF IsSome(answer) /\ Get(answer) /= ""
                THEN Result(add_comment_annotation(a, page[1], page[2], Get(answer)).s, NoValue)
                ELSE Result(a, NoValue)
      [] OTHER -> Result(s, NoValue)

move_selected_annotation(s, event) ==
    IF ~IsSome(s.selected_annotation) THEN Result(s, NoValue)
    ELSE LET annotation_id == Get(s.selected_annotation).id
             page_num == s.current_page
             i == FindAnnotation(s, page_num, annotation_id)
         IN  IF i = 0 THEN Result(s, NoValue)
             ELSE LET target == s.annotations[page_num][i]
                      page == get_page_coordinates(s, event)
                      data ==
                          CASE target.type \in {"text", "comment"} ->
                                  [target.data EXCEPT !.x = page[1], !.y = page[2]]
                            [] target.type = "shape" ->
                                  LET width == RSub(target.data.x2, target.data.x1)
                                      height == RSub(target.data.y2, target.data.y1)
                                  IN  [target.data EXCEPT
                                          !.x1 = page[1], !.y1 = page[2],
                                          !.x2 = RAdd(page[1], width),
                                          !.y2 = RAdd(page[2], height)]
                            [] OTHER -> target.data
                      moved == [s EXCEPT !.annotations[page_num][i].data = data]
                  IN  Result([display_current_page(moved) EXCEPT !.has_changes = TRUE],
                             NoValue)

on_mouse_drag(s, event) ==
    IF ~s.drawing
    THEN IF IsSome(s.selected_annotation)
         THEN Result(move_selected_annotation(s, event).s, NoValue)
         ELSE Result(s, NoValue)
    ELSE CASE s.current_tool \in {"highlight", "shapes"} ->
                LET current == get_page_coordinates(s, event)
                    o == PageOffset(s)
                IN  Result(CanvasSetCoords(s, s.temp_item,
                        <<Scaled(s, s.start_x, o[1]), Scaled(s, s.start_y, o[2]),
                          Scaled(s, current[1], o[1]), Scaled(s, current[2], o[2])>>),
                        NoValue)
           [] s.current_tool = "draw" ->
                IF ~IsSome(s.drawing_points) THEN Raised(s)
                ELSE LET page == get_page_coordinates(s, event)
                         a == AppendDrawingPoint(s, page)
                         b == CanvasDelete(a, a.temp_item)
                     IN  Result([CanvasCreate(b, "line",
                                    ScalePoints(b, Get(b.drawing_points), PageOffset(b)),
                                    <<<<"temp_annotation">>>>, FALSE, NoExtent)
                                 EXCEPT !.temp_item = Some(NewId(b))], NoValue)
           [] OTHER -> Result(s, NoValue)

on_mouse_up(s, event) ==
    IF ~s.drawing THEN Result(s, NoValue)
    ELSE CASE s.current_tool = "highlight" ->
                LET current == get_page_coordinates(s, event)
                    a == [CanvasDelete(s, s.temp_item) EXCEPT !.temp_item = NoValue]
                    xs == Sorted2(a.start_x, current[1])
                    ys == Sorted2(a.start_y, current[2])
                    r == add_highlight_annotation(a, xs[1], ys[1], xs[2], ys[2])
                IN  Result([r.s EXCEPT !.drawing = FALSE], NoValue)
           [] s.current_tool = "draw" ->
                LET a == [CanvasDelete(s, s.temp_item) EXCEPT !.temp_item = NoValue]
                IN  IF ~IsSome(a.drawing_points) THEN Raised(a)
                    ELSE IF Len(Get(a.drawing_points)) > 1
                    THEN Result([add_drawing_annotation(a, Get(a.drawing_points), TRUE).s
                                    EXCEPT !.drawing = FALSE], NoValue)
                    ELSE Result([a EXCEPT !.drawing = FALSE], NoValue)
           [] s.current_tool = "shapes" ->
                LET current == get_page_coordinates(s, event)
                    a == [CanvasDelete(s, s.temp_item) EXCEPT !.temp_item = NoValue]
                    xs == Sorted2(a.start_x, current[1])
                    ys == Sorted2(a.start_y, current[2])
                    r == add_shape_annotation(a, xs[1], ys[1], xs[2], ys[2], "rectangle")
                IN  Result([r.s EXCEPT !.drawing = FALSE], NoValue)
           [] OTHER -> Result([s EXCEPT !.drawing = FALSE], NoValue)

delete_selected(s) ==
    IF ~IsSome(s.selected_annotation) THEN Result(s, FALSE)
    ELSE LET r == delete_annotation(s, s.current_page, Get(s.selected_annotation).id)
             a == clear_selection(r.s)
         IN  Result(IF r.ret THEN display_current_page(a) ELSE a, r.ret)

cancel_current_action(s) ==
    LET a == IF IsSome(s.temp_item)
             THEN [CanvasDelete(s, s.temp_item) EXCEPT !.temp_item = NoValue]
             ELSE s
        b == clear_selection([a EXCEPT !.drawing = FALSE])
    IN  Result(set_tool(b, "view"), TRUE)

-----------------------------------------------------------------------------
(* PDFReaderApp: the split view. The second pane has a document and a      *)
(* viewer of its own; of the viewer the page and the zoom level are kept,  *)
(* of the document the number of pages and the annotations.                *)

\* PDFDocument(file_path) and PDFViewer(frame, document) for the second pane
SecondView(page_count) ==
    [page_count |-> page_count, current_page |-> 0, zoom_level |-> InitialZoom,
     annotations |-> [p \in 0 .. (page_count - 1) |-> <<>>]]

\* chosen: the number of pages of the file picked in the dialog, None when
\* the dialog was cancelled
open_second_file(second, chosen) ==
    IF IsSome(chosen) THEN Some(SecondView(Get(chosen))) ELSE second

\* the methods of PDFViewer that the second pane calls, on the second viewer
second_go_to_page(v, page_num) ==
    IF 0 <= page_num /\ page_num < v.page_count
    THEN [v EXCEPT !.current_page = page_num] ELSE v

second_set_zoom(v, zoom) ==
    IF RLe(MinZoom, zoom) /\ RLe(zoom, MaxZoomLevel)
    THEN [v EXCEPT !.zoom_level = zoom] ELSE v

second_toolbar(v, command) ==
    CASE command = "previous_page" ->
            IF v.current_page > 0 THEN [v EXCEPT !.current_page = @ - 1] ELSE v
      [] command = "next_page" ->
            IF v.current_page < v.page_count - 1
            THEN [v EXCEPT !.current_page = @ + 1] ELSE v
      [] command = "zoom_out" ->
            IF RLt(MinZoom, v.zoom_level)
            THEN [v EXCEPT !.zoom_level = RMax(RSub(@, ZoomStep), MinZoom)] ELSE v
      [] command = "zoom_in" ->
            IF RLt(v.zoom_level, MaxZoomLevel)
            THEN [v EXCEPT !.zoom_level = RMin(RAdd(@, ZoomStep), MaxZoomLevel)] ELSE v
      [] OTHER -> v

\* sync_views, had it copied the zoom level only
sync_views_ZoomOnly(s, second) ==
    IF IsSome(second)
    THEN Some(second_set_zoom(Get(second), s.zoom_level))
    ELSE second

sync_views(s, second) ==
    IF IsSome(second)
    THEN Some(second_set_zoom(second_go_to_page(Get(second), s.current_page),
                              s.zoom_level))
    ELSE second

-----------------------------------------------------------------------------
(* The state after PDFDocument, PDFViewer and PDFEditor are constructed.    *)

InitState ==
    display_current_page(
        [annotations |-> [p \in Pages |-> <<>>], has_changes |-> FALSE,
         file_path |-> OriginalPath, pdf_writer |-> NoValue,
         disk |-> [f \in Paths |->
                      IF f = OriginalPath THEN File("original", <<>>)
                      ELSE File("absent", <<>>)],
         current_page |-> 0, zoom_level |-> InitialZoom,
         search_term |-> "", search_results |-> <<>>, current_match |-> -1,
         canvas |-> <<>>, canvas_size |-> CanvasSize, view_y |-> 0,
         current_tool |-> "view", drawing |-> FALSE,
         start_x |-> R(0), start_y |-> R(0), temp_item |-> NoValue,
         drawing_points |-> NoValue,
         selected_annotation |-> NoValue, selection_outline |-> NoValue])

Init ==
    /\ annotations = InitState.annotations
    /\ has_changes = InitState.has_changes
    /\ file_path = InitState.file_path
    /\ pdf_writer = InitState.pdf_writer
    /\ disk = InitState.disk
    /\ current_page = InitState.current_page
    /\ zoom_level = InitState.zoom_level
    /\ search_term = InitState.search_term
    /\ search_results = InitState.search_results
    /\ current_match = InitState.current_match
    /\ canvas = InitState.canvas
    /\ canvas_size = InitState.canvas_size
    /\ view_y = InitState.view_y
    /\ current_tool = InitState.current_tool
    /\ drawing = InitState.drawing
    /\ start_x = InitState.start_x
    /\ start_y = InitState.start_y
    /\ temp_item = InitState.temp_item
    /\ drawing_points = InitState.drawing_points
    /\ selected_annotation = InitState.selected_annotation
    /\ selection_outline = InitState.selection_outline
    /\ second_view = NoValue
    /\ button = "up"
    /\ issued = [p \in Pages |-> {}]
    /\ last = [op |-> "init", args |-> <<>>, ret |-> NoValue, raised |-> FALSE,
               fresh |-> TRUE, had_selection |-> FALSE, gesture |-> <<>>,
               down |-> NoValue]

(* Item ids are opaque and never handed out twice, so a state is kept with  *)
(* its items renumbered by position and every reference to a deleted item   *)
(* replaced by StaleRef.                                                    *)
Position(s, id) == CHOOSE i \in 1 .. Len(s.canvas) : s.canvas[i].id = id

Renumbered(s, ref) ==
    IF ~IsSome(ref) THEN NoValue
    ELSE IF Get(ref) \in ItemIds(s) THEN Some(Position(s, Get(ref)))
    ELSE StaleRef

Canonical(s) ==
    [s EXCEPT
        !.canvas = [i \in 1 .. Len(s.canvas) |-> [s.canvas[i] EXCEPT !.id = i]],
        !.temp_item = Renumbered(s, s.temp_item),
        !.selection_outline = Renumbered(s, s.selection_outline),
        !.selected_annotation =
            IF IsSome(s.selected_annotation)
            THEN Some([Get(s.selected_annotation) EXCEPT
                        !.item = Get(Renumbered(s, Some(Get(s.selected_annotation).item)))])
            ELSE NoValue]

\* the ids of the annotations that the call appended
Appended(before, after, p) ==
    IF Len(after.annotations[p]) > Len(before.annotations[p])
    THEN {after.annotations[p][i].id :
            i \in (Len(before.annotations[p]) + 1) .. Len(after.annotations[p])}
    ELSE {}

\* The call op(args) ran from the current state and gave r.
Commit(op, args, r, new_button) ==
    LET c == Canonical(r.s)
    IN  /\ annotations' = c.annotations
        /\ has_changes' = c.has_changes
        /\ file_path' = c.file_path
        /\ pdf_writer' = c.pdf_writer
        /\ disk' = c.disk
        /\ current_page' = c.current_page
        /\ zoom_level' = c.zoom_level
        /\ search_term' = c.search_term
        /\ search_results' = c.search_results
        /\ current_match' = c.current_match
        /\ canvas' = c.canvas
        /\ canvas_size' = c.canvas_size
        /\ view_y' = c.view_y
        /\ current_tool' = c.current_tool
        /\ drawing' = c.drawing
        /\ start_x' = c.start_x
        /\ start_y' = c.start_y
        /\ temp_item' = c.temp_item
        /\ drawing_points' = c.drawing_points
        /\ selected_annotation' = c.selected_annotation
        /\ selection_outline' = c.selection_outline
        /\ second_view' = second_view
        /\ button' = new_button
        /\ issued' = [p \in Pages |-> issued[p] \cup Appended(St, c, p)]
        /\ last' = [op |-> op, args |-> args, ret |-> r.ret, raised |-> r.raised,
                    fresh |-> \A p \in Pages : Appended(St, c, p) \cap issued[p] = {},
                    had_selection |-> IsSome(selected_annotation),
                    gesture |->
                        CASE op = "on_mouse_down" /\ current_tool = "draw" ->
                                <<get_page_coordinates(St, args[1])>>
                          [] op = "on_mouse_down" -> <<>>
                          [] op = "on_mouse_drag" /\ current_tool = "draw"
                                /\ last.gesture /= <<>> ->
                                Append(last.gesture, get_page_coordinates(St, args[1]))
                          [] op \in {"on_mouse_up", "cancel_current_action"} -> <<>>
                          [] OTHER -> last.gesture,
                    down |->
                        CASE op = "on_mouse_down"
                                /\ current_tool \in {"highlight", "draw", "shapes"} ->
                                Some(args[1])
                          [] op \in {"on_mouse_down", "on_mouse_up",
                                     "cancel_current_action"} -> NoValue
                          [] OTHER -> last.down]

\* The call op(args) of the application ran and left the second pane as
\* second; the first pane, its document and its editor are not touched.
CommitSecond(op, args, second) ==
    /\ second_view' = second
    /\ UNCHANGED <<annotations, has_changes, file_path, pdf_writer, disk,
                   current_page, zoom_level, search_term, search_results,
                   current_match, canvas, canvas_size, view_y, current_tool,
                   drawing, start_x, start_y, temp_item, drawing_points,
                   selected_annotation, selection_outline, button, issued>>
    /\ last' = [last EXCEPT !.op = op, !.args = args, !.ret = NoValue,
                            !.raised = FALSE, !.fresh = TRUE,
                            !.had_selection = IsSome(selected_annotation)]

-----------------------------------------------------------------------------
(* Inputs.                                                                  *)

\* page arguments: every page, one below and one above the range
PageArgs == -1 .. PageCount

\* rectangles in document coordinates: one large enough, two that are not
BigRect == <<R(10), R(10), R(100), R(50)>>
NarrowRect == <<R(10), R(10), R(13), R(50)>>
LowRect == <<R(10), R(10), R(100), R(12)>>
SampleRects == {BigRect, NarrowRect, LowRect}

SamplePoints == <<<<R(10), R(10)>>, <<R(40), R(30)>>>>

HighlightData(rect) ==
    [x1 |-> rect[1], y1 |-> rect[2], x2 |-> rect[3], y2 |-> rect[4], color |-> "yellow"]

ShapeData(rect, shape_type) ==
    [x1 |-> rect[1], y1 |-> rect[2], x2 |-> rect[3], y2 |-> rect[4],
     shape_type |-> shape_type, color |-> "#FF0000", line_width |-> 2]

DrawingData(points) ==
    [points |-> points, color |-> "#FF0000", width |-> 2, smooth |-> TRUE]

CommentData(point, text) ==
    [x |-> point[1], y |-> point[2], text |-> text, color |-> "yellow"]

\* what a caller of the store passes to add_annotation: <<type, data>>
SampleAnnotations ==
    {<<"highlight", HighlightData(r)>> : r \in {BigRect, NarrowRect}}
    \cup {<<"drawing", DrawingData(SubSeq(SamplePoints, 1, 1))>>}

\* what a caller passes to update_annotation
SampleUpdates == {[color |-> "blue"]}

\* ids a caller may hold: those handed out on the page (on any page, when
\* the page is not one of the document), and one never handed out
IdArgs(p) ==
    (IF p \in Pages THEN issued[p] ELSE UNION {issued[q] : q \in Pages})
    \cup {FormatId(0, 9)}

\* zoom levels passed to set_zoom: the two limits, a level within a step of
\* each, 100%, and one level beyond each limit
ZoomArgs == {Rat(1, 5), MinZoom, Rat(3, 10), R(1), Rat(59, 20), MaxZoomLevel,
             Rat(31, 10)}

\* sizes the user gives the window: as opened, narrow, wide
WindowSizes == {CanvasSize, <<150, 700>>, <<2000, 700>>}

\* pointer positions in the window of the canvas (event.x, event.y)
DevicePoints == {<<154, 10>>, <<244, 50>>}

\* what the user answers to askstring: cancel, nothing, a text
Answers == {NoValue, Some(""), Some("note")}

Previews(s) ==
    Cardinality({i \in 1 .. Len(s.canvas) : HasTag(s.canvas[i], "temp_annotation")})

RECURSIVE CountFrom(_, _)
CountFrom(s, p) ==
    IF p >= PageCount THEN 0 ELSE Len(s.annotations[p]) + CountFrom(s, p + 1)

HasRoom(s) == CountFrom(s, 0) < MaxAnnots

-----------------------------------------------------------------------------
(* Actions: the public operations of the store.                             *)

AddAnnotation ==
    \E p \in PageArgs, a \in SampleAnnotations :
        /\ HasRoom(St)
        /\ Commit("add_annotation", <<p, a[1], a[2]>>,
                  add_annotation(St, p, a[1], a[2]), button)

UpdateOn(pages) ==
    \E p \in pages, data \in SampleUpdates :
        \E id \in IdArgs(p) :
            Commit("update_annotation", <<p, id, data>>,
                   update_annotation(St, p, id, data), button)

UpdateAnnotation == UpdateOn(PageArgs)

DeleteAnnotation ==
    \E p \in PageArgs :
        \E id \in IdArgs(p) :
            Commit("delete_annotation", <<p, id>>,
                   delete_annotation(St, p, id), button)

GetPageDimensions ==
    \E p \in PageArgs :
        Commit("get_page_dimensions", <<p>>, Result(St, get_page_dimensions(p)), button)

GetAnnotations ==
    \E p \in PageArgs :
        Commit("get_annotations", <<p>>, Result(St, get_annotations(St, p)), button)

SaveWith(outcomes) ==
    \E io \in outcomes :
        Commit("save", <<io>>, save(St, io), button)

Save == SaveWith(IoOutcomes)

SaveAsTo(paths, outcomes) ==
    \E path \in paths, io \in outcomes :
        Commit("save_as", <<path, io>>, save_as(St, path, io), button)

SaveAs == SaveAsTo(Paths, IoOutcomes)

(* Actions: the public operations of the editor that add an annotation.     *)

AddHighlightAnnotation ==
    \E r \in SampleRects :
        /\ HasRoom(St)
        /\ Commit("add_highlight_annotation", r,
                  add_highlight_annotation(St, r[1], r[2], r[3], r[4]), button)

AddShapeAnnotation ==
    \E r \in SampleRects, shape_type \in {"rectangle", "oval", "arrow"} :
        /\ HasRoom(St)
        /\ Commit("add_shape_annotation", <<r, shape_type>>,
                  add_shape_annotation(St, r[1], r[2], r[3], r[4], shape_type), button)

AddDrawingAnnotation ==
    \E n \in 0 .. Len(SamplePoints) :
        /\ HasRoom(St)
        /\ Commit("add_drawing_annotation", <<SubSeq(SamplePoints, 1, n)>>,
                  add_drawing_annotation(St, SubSeq(SamplePoints, 1, n), FALSE), button)

(* Actions: pointer and keyboard events on the editor.                      *)

SetToolIn(tools) ==
    \E tool \in tools :
        Commit("set_tool", <<tool>>, Result(set_tool(St, tool), NoValue), button)

SetTool == SetToolIn(Tools)

MouseDown ==
    \E event \in DevicePoints, answer \in Answers :
        /\ button = "up"
        /\ current_tool /= "view" => HasRoom(St)
        /\ current_tool \in {"highlight", "draw", "shapes"} => Previews(St) < MaxPreviews
        /\ current_tool \in {"text", "comment"} \/ answer = NoValue
        /\ Commit("on_mouse_down", <<event, answer>>,
                  on_mouse_down(St, event, answer), "down")

\* the pointer is moved with the button held while one of the tools is current
MouseDragWith(tools) ==
    \E event \in DevicePoints :
        /\ button = "down"
        /\ current_tool \in tools
        /\ (drawing /\ current_tool = "draw" /\ IsSome(drawing_points))
               => Len(Get(drawing_points)) < MaxPoints
        /\ Commit("on_mouse_drag", <<event>>, on_mouse_drag(St, event), "down")

MouseDrag == MouseDragWith(Tools)

MouseUp ==
    \E event \in DevicePoints :
        /\ button = "down"
        /\ (drawing /\ current_tool /= "view") => HasRoom(St)
        /\ Commit("on_mouse_up", <<event>>, on_mouse_up(St, event), "up")

DeleteSelected ==
    Commit("delete_selected", <<>>, delete_selected(St), button)

CancelCurrentAction ==
    Commit("cancel_current_action", <<>>, cancel_current_action(St), button)

(* Actions: the public operations of the viewer.                            *)

PreviousPage == Commit("previous_page", <<>>, previous_page(St), button)

NextPage == Commit("next_page", <<>>, next_page(St), button)

GoToPage ==
    \E p \in PageArgs : Commit("go_to_page", <<p>>, go_to_page(St, p), button)

\* zoom_in / zoom_out are attempted around 100% and around the two limits
ZoomAnchors == {MinZoom, InitialZoom, MaxZoomLevel}

WithinZoomBound(z) ==
    \E a \in ZoomAnchors :
        /\ RLe(RSub(a, RMul(R(MaxZoomSteps), ZoomStep)), z)
        /\ RLe(z, RAdd(a, RMul(R(MaxZoomSteps), ZoomStep)))

ZoomIn ==
    /\ WithinZoomBound(RAdd(zoom_level, ZoomStep))
    /\ Commit("zoom_in", <<>>, zoom_in(St), button)

ZoomOut ==
    /\ WithinZoomBound(RSub(zoom_level, ZoomStep))
    /\ Commit("zoom_out", <<>>, zoom_out(St), button)

SetZoom ==
    \E zoom \in ZoomArgs :
        Commit("set_zoom", <<zoom>>, set_zoom(St, zoom), button)

FitToWidth == Commit("fit_to_width", <<>>, fit_to_width(St), button)

Resize ==
    \E size \in WindowSizes :
        Commit("on_canvas_configure", <<size>>, on_canvas_configure(St, size), button)

MouseWheel ==
    \E direction \in {-1, 1} :
        Commit("on_mouse_wheel", <<direction>>, on_mouse_wheel(St, direction), button)

\* a search for one of the terms in a file where the pages of one of the
\* sets in damage cannot be read
SearchWhere(terms, damage) ==
    \E term \in terms, unreadable \in damage :
        Commit("search_text", <<term, unreadable>>,
               search_text(St, term, unreadable), button)

\* a search in a file of which every page can be read
SearchFor(terms) == SearchWhere(terms, {{}})

SearchText == SearchFor(SearchTerms)

NextMatch == Commit("next_match", <<>>, next_match(St), button)

PreviousMatch == Commit("previous_match", <<>>, previous_match(St), button)

(* Actions: the split view.                                                 *)

\* numbers of pages of the files opened for comparison: fewer and more pages
\* than the document of the first pane
SecondPageCounts == {PageCount - 1, PageCount + 1}

OpenSecondFile ==
    \E chosen \in {NoValue} \cup {Some(n) : n \in SecondPageCounts} :
        CommitSecond("open_second_file", <<chosen>>,
                     open_second_file(second_view, chosen))

SyncViews == CommitSecond("sync_views", <<>>, sync_views(St, second_view))

\* the buttons of the toolbar of the second pane
SecondToolbar ==
    \E command \in {"previous_page", "next_page", "zoom_out", "zoom_in"} :
        /\ IsSome(second_view)
        /\ command = "zoom_in"
              => WithinZoomBound(RAdd(Get(second_view).zoom_level, ZoomStep))
        /\ command = "zoom_out"
              => WithinZoomBound(RSub(Get(second_view).zoom_level, ZoomStep))
        /\ CommitSecond("second_toolbar", <<command>>,
                        Some(second_toolbar(Get(second_view), command)))

-----------------------------------------------------------------------------
(* Specifications.                                                          *)

\* the annotation store under its public operations, and the editor's add_*
NextStore ==
    \/ AddAnnotation
    \/ UpdateAnnotation
    \/ DeleteAnnotation
    \/ GetAnnotations

SpecStore == Init /\ [][NextStore]_vars

\* saving, after highlights were added through the editor or deleted
NextSave ==
    \/ AddHighlightAnnotation
    \/ DeleteAnnotation
    \/ Save
    \/ SaveAs

SpecSave == Init /\ [][NextSave]_vars

\* the store's add and the editor's add_* operations on either page
NextEditorAdd ==
    \/ AddAnnotation
    \/ AddHighlightAnnotation
    \/ AddShapeAnnotation
    \/ AddDrawingAnnotation
    \/ NextPage
    \/ PreviousPage

SpecEditorAdd == Init /\ [][NextEditorAdd]_vars

\* the interaction state machine under pointer events with the View and
\* Highlight tools, tool changes, cancellation, deletion and paging forward
Next ==
    \/ SetToolIn({"view", "highlight"})
    \/ MouseDown
    \/ MouseDrag
    \/ MouseUp
    \/ DeleteSelected
    \/ CancelCurrentAction
    \/ NextPage

Spec == Init /\ [][Next]_vars

\* the viewer: search, navigation and zoom
NextViewer ==
    \/ SearchText
    \/ NextMatch
    \/ PreviousMatch
    \/ PreviousPage
    \/ NextPage
    \/ GoToPage
    \/ ZoomIn
    \/ ZoomOut

SpecViewer == Init /\ [][NextViewer]_vars

\* the viewer's zoom: stepping, setting, fitting to a resized window, and
\* the page dimensions that fitting asks the document for
NextZoom ==
    \/ ZoomIn
    \/ ZoomOut
    \/ SetZoom
    \/ FitToWidth
    \/ Resize
    \/ NextPage
    \/ GetPageDimensions

SpecZoom == Init /\ [][NextZoom]_vars

\* highlights drawn with the pointer while the view is scrolled and zoomed
NextMap ==
    \/ SetToolIn({"highlight"})
    \/ MouseDown
    \/ MouseUp
    \/ MouseWheel
    \/ ZoomIn

SpecMap == Init /\ [][NextMap]_vars

\* text annotations placed and moved with the pointer, those of the second
\* page updated through the store, while the user pages forward, searches
\* for a word of the second page and saves
NextPages ==
    \/ SetToolIn({"view", "text"})
    \/ MouseDown
    \/ MouseDrag
    \/ MouseUp
    \/ UpdateOn({1})
    \/ NextPage
    \/ SearchFor({"odd"})
    \/ SaveWith({"ok"})

SpecPages == Init /\ [][NextPages]_vars

\* text annotations placed with the pointer, selected and deleted
NextDelete ==
    \/ SetToolIn({"view", "text"})
    \/ MouseDown
    \/ MouseUp
    \/ DeleteSelected

SpecDelete == Init /\ [][NextDelete]_vars

\* gestures with the Highlight and Draw tools and changes between the two
NextDraw ==
    \/ SetToolIn({"highlight", "draw"})
    \/ MouseDown
    \/ MouseDrag
    \/ MouseUp

SpecDraw == Init /\ [][NextDraw]_vars

\* gestures with the Shapes and Draw tools and changes between the two
NextShapes ==
    \/ SetToolIn({"shapes", "draw"})
    \/ MouseDown
    \/ MouseDrag
    \/ MouseUp

SpecShapes == Init /\ [][NextShapes]_vars

\* text and comment annotations placed with the pointer while the view is
\* scrolled
NextNotes ==
    \/ SetToolIn({"text", "comment"})
    \/ MouseDown
    \/ MouseUp
    \/ MouseWheel

SpecNotes == Init /\ [][NextNotes]_vars

\* text annotations and shapes placed with the pointer, selected, dragged
\* and deleted
NextMove ==
    \/ SetToolIn({"view", "text", "shapes"})
    \/ MouseDown
    \/ MouseDrag
    \/ MouseUp
    \/ DeleteSelected

SpecMove == Init /\ [][NextMove]_vars

\* highlights and text annotations placed with the pointer, selected,
\* dragged and deleted
NextMark ==
    \/ SetToolIn({"view", "text", "highlight"})
    \/ MouseDown
    \/ MouseDrag
    \/ MouseUp
    \/ DeleteSelected

SpecMark == Init /\ [][NextMark]_vars

\* highlights drawn, selected and dragged with the pointer between saves
\* under another name
NextFlag ==
    \/ SetToolIn({"view", "highlight"})
    \/ MouseDown
    \/ MouseDrag
    \/ MouseUp
    \/ SaveAsTo({OtherPath}, {"ok"})

SpecFlag == Init /\ [][NextFlag]_vars

\* the viewer's navigation, zoom and search over a document that holds
\* highlights
NextLook ==
    \/ AddHighlightAnnotation
    \/ NextPage
    \/ PreviousPage
    \/ GoToPage
    \/ ZoomIn
    \/ ZoomOut
    \/ SetZoom
    \/ FitToWidth
    \/ SearchFor({"page", "odd"})
    \/ NextMatch
    \/ PreviousMatch

SpecLook == Init /\ [][NextLook]_vars

\* highlights drawn and selected with the pointer while the view is
\* scrolled
NextHit ==
    \/ SetToolIn({"view", "highlight"})
    \/ MouseDown
    \/ MouseUp
    \/ MouseWheel

SpecHit == Init /\ [][NextHit]_vars

\* gestures with the Highlight and Draw tools, changes of tool, and
\* selecting and dragging with the View tool
NextGesture ==
    \/ SetToolIn({"view", "highlight", "draw"})
    \/ MouseDown
    \/ MouseDragWith({"view"})
    \/ MouseUp

SpecGesture == Init /\ [][NextGesture]_vars

\* searches in a file with pages that cannot be read, while highlights are
\* drawn and selected
NextFind ==
    \/ SetToolIn({"view", "highlight"})
    \/ MouseDown
    \/ MouseUp
    \/ SearchWhere({"page"}, SUBSET Pages)

SpecFind == Init /\ [][NextFind]_vars

\* the split view: a second file is opened, both panes are paged and
\* zoomed, the views are synchronized and highlights are added to the
\* document of the first pane
NextSplit ==
    \/ OpenSecondFile
    \/ SyncViews
    \/ SecondToolbar
    \/ NextPage
    \/ PreviousPage
    \/ ZoomIn
    \/ ZoomOut
    \/ AddHighlightAnnotation

SpecSplit == Init /\ [][NextSplit]_vars

-----------------------------------------------------------------------------
(* Properties.                                                              *)

\* C1: on every page no two annotations share an id, and add never returns
\* an id that it returned before on that page.
C1_IdsUniqueNeverReused ==
    /\ \A p \in Pages : \A i, j \in 1 .. Len(annotations[p]) :
           i /= j => annotations[p][i].id /= annotations[p][j].id
    /\ last.fresh

\* C2: the unsaved-changes flag is false after opening, true after every
\* successful add, update or delete, and false after every successful save
\* or save_as.
C2_FlagTracksSaves ==
    /\ last.op = "init" => ~has_changes
    /\ (last.op \in {"add_annotation", "add_highlight_annotation"}
           /\ IsSome(last.ret)) => has_changes
    /\ (last.op \in {"update_annotation", "delete_annotation"} /\ last.ret)
          => has_changes
    /\ (last.op \in {"save", "save_as"} /\ ~last.raised) => ~has_changes

Idle(t) ==
    /\ current_tool = t
    /\ ~drawing
    /\ ~IsSome(temp_item)
    /\ Previews(St) = 0

\* C3: set_tool(t) leaves the machine in Idle(t), so that a pointer-up that
\* follows it adds nothing to the store.
C3_SetToolForcesIdle ==
    [][/\ (last.op = "set_tool" => Idle(last.args[1]))'
       /\ (last.op = "set_tool" /\ last'.op = "on_mouse_up")
             => annotations' = annotations]_vars

\* the page that an id was made for: the third token of annot_<page>_<n>
PageOfId(id) == id[3]

\* C4: after a successful page change there is no selection, and a selection
\* never refers to an annotation of a page other than the current one.
C4_NoSelectionAcrossPages ==
    /\ (last.op \in {"previous_page", "next_page", "go_to_page"} /\ last.ret)
          => ~IsSome(selected_annotation)
    /\ IsSome(selected_annotation)
          => PageOfId(Get(selected_annotation).id) = Str(current_page)

\* C5: once a search has found something, next_match and previous_match
\* succeed, step the cursor circularly over the unchanged result list and
\* leave the view on the page at the cursor.
C5_MatchesCycle ==
    [][/\ (last.op = "search_text" /\ last.ret
             /\ last'.op \in {"next_match", "previous_match"})
          => last'.ret
       /\ (search_results /= <<>> /\ last'.op \in {"next_match", "previous_match"})
          => /\ last'.ret
             /\ search_results' = search_results
             /\ current_match' =
                   (current_match + (IF last'.op = "next_match" THEN 1 ELSE -1))
                       % Len(search_results)
             /\ current_page' = search_results[current_match' + 1]]_vars

\* the canvas items of annotations that lie under the pointer position
HitItems(event) ==
    {i \in 1 .. Len(canvas) :
        /\ IsAnnotationItem(canvas[i])
        /\ Overlaps(canvas[i], <<R(event[1] - HitRadius), R(event[2] - HitRadius),
                                 R(event[1] + HitRadius), R(event[2] + HitRadius)>>)}

\* C6: a View-tool pointer-down over several annotations selects the topmost.
C6_SelectsTopmost ==
    (last.op = "on_mouse_down" /\ current_tool = "view" /\ HitItems(last.args[1]) /= {})
        => /\ IsSome(selected_annotation)
           /\ Get(selected_annotation).item = Max(HitItems(last.args[1]))

Undersized(data) ==
    \/ RLt(RAbs(RSub(data.x2, data.x1)), R(MinSize))
    \/ RLt(RAbs(RSub(data.y2, data.y1)), R(MinSize))

UndersizedRect(r) ==
    \/ RLt(RAbs(RSub(r[3], r[1])), R(MinSize))
    \/ RLt(RAbs(RSub(r[4], r[2])), R(MinSize))

StoreUnchanged == annotations' = annotations /\ has_changes' = has_changes

\* C7: adding an undersized rectangle as a Highlight or as a rectangle Shape,
\* through the store or through the editor, returns no id and leaves the
\* store unchanged.
C7_UndersizedRejected ==
    [][/\ (last'.op = "add_annotation" /\ last'.args[2] \in {"highlight", "shape"}
             /\ Undersized(last'.args[3]))
          => (last'.ret = NoValue /\ StoreUnchanged)
       /\ (last'.op = "add_highlight_annotation" /\ UndersizedRect(last'.args))
          => (last'.ret = NoValue /\ StoreUnchanged)
       /\ (last'.op = "add_shape_annotation" /\ last'.args[2] = "rectangle"
             /\ UndersizedRect(last'.args[1]))
          => (last'.ret = NoValue /\ StoreUnchanged)]_vars

\* C8: adding a Drawing with fewer than 2 points, through the editor or
\* through the store, returns no id and leaves the store unchanged, and no
\* Drawing with fewer than 2 points is ever in the store.
C8_ShortDrawingRejected ==
    [][/\ (last'.op = "add_annotation" /\ last'.args[2] = "drawing"
             /\ Len(last'.args[3].points) < 2)
          => (last'.ret = NoValue /\ StoreUnchanged)
       /\ (last'.op = "add_drawing_annotation" /\ Len(last'.args[1]) < 2)
          => (last'.ret = NoValue /\ StoreUnchanged)
       /\ \A p \in Pages : \A i \in 1 .. Len(annotations'[p]) :
             annotations'[p][i].type = "drawing"
                => Len(annotations'[p][i].data.points) >= 2]_vars

\* every annotation of the store is on its page in the written file
Represented(pages) ==
    \A p \in Pages : \A i \in 1 .. Len(annotations[p]) :
        annotations[p][i].id \in SeqToSet(pages[p].annotations)

\* C9: the output of a successful save or save_as represents every
\* annotation of the store.
C9_SaveKeepsAnnotations ==
    (last.op \in {"save", "save_as"} /\ ~last.raised
        /\ disk[file_path].state = "written")
        => Represented(disk[file_path].pages)

\* the call was asked to write and the file system refused
WriteRefused(l, had_changes) ==
    \/ l.op = "save" /\ had_changes /\ l.args[1] /= "ok"
    \/ l.op = "save_as" /\ l.args[2] /= "ok"

\* C10: when the write of save or save_as fails, the error reaches the
\* caller and annotations, unsaved-changes flag and file path are as before.
C10_FailedSaveChangesNothing ==
    [][WriteRefused(last', has_changes)
          => /\ last'.raised
             /\ annotations' = annotations
             /\ has_changes' = has_changes
             /\ file_path' = file_path]_vars

\* a save_as to another path failed while annotations were unsaved
C10_Witness ==
    /\ last.op = "save_as" /\ last.raised
    /\ last.args[1] /= file_path
    /\ has_changes
    /\ \E p \in Pages : annotations[p] /= <<>>

\* what a lookup of last.args[1]'s page for the id that add returned finds:
\* the first annotation of the page that carries the id
AddedFound ==
    LET p == last.args[1]
        i == FindAnnotation(St, p, Get(last.ret))
    IN  /\ i /= 0
        /\ annotations[p][i].type = last.args[2]
        /\ annotations[p][i].data = last.args[3]

\* the page's sequence is the old one with the annotation just added last
AddedLast ==
    LET p == last'.args[1]
        n == Len(annotations[p])
    IN  /\ Len(annotations'[p]) = n + 1
        /\ SubSeq(annotations'[p], 1, n) = annotations[p]
        /\ annotations'[p][n + 1].id = Get(last'.ret)
        /\ annotations'[p][n + 1].type = last'.args[2]
        /\ annotations'[p][n + 1].data = last'.args[3]

\* C11: after an add that returned an id, looking that id up on the page
\* finds an annotation with the kind and data that were passed, and the
\* page's sequence is one longer with the new annotation last.
C11_AddRoundTrips ==
    [][(last'.op = "add_annotation" /\ IsSome(last'.ret))
          => (AddedFound' /\ AddedLast)]_vars

\* the annotations of page p that update(p, id, data) does not address are
\* as before; the addressed one has data merged and the rest unchanged
UpdatedOnly(p, id, data) ==
    LET i == FindAnnotation(St, p, id)
    IN  /\ Len(annotations'[p]) = Len(annotations[p])
        /\ \A q \in Pages \ {p} : annotations'[q] = annotations[q]
        /\ \A j \in 1 .. Len(annotations[p]) :
              IF j = i
              THEN /\ annotations'[p][j].id = annotations[p][j].id
                   /\ annotations'[p][j].type = annotations[p][j].type
                   /\ DOMAIN annotations'[p][j].data
                         = (DOMAIN annotations[p][j].data) \cup (DOMAIN data)
                   /\ \A k \in DOMAIN annotations'[p][j].data :
                         annotations'[p][j].data[k] =
                            IF k \in DOMAIN data THEN data[k]
                            ELSE annotations[p][j].data[k]
              ELSE annotations'[p][j] = annotations[p][j]

IdPresent(p, id) == p \in Pages /\ FindAnnotation(St, p, id) /= 0

\* C12: update on an id present on the page returns true and overwrites
\* exactly the named data fields of that annotation; on an id not present
\* it returns false and changes nothing.
C12_UpdateMergesNamedFields ==
    [][last'.op = "update_annotation"
          => IF IdPresent(last'.args[1], last'.args[2])
             THEN /\ last'.ret = TRUE
                  /\ UpdatedOnly(last'.args[1], last'.args[2], last'.args[3])
             ELSE /\ last'.ret = FALSE
                  /\ annotations' = annotations
                  /\ has_changes' = has_changes]_vars

\* an update changed the colour of the first of two annotations of a page
\* and kept its rectangle
C12_Witness ==
    /\ last.op = "update_annotation" /\ last.ret = TRUE
    /\ LET p == last.args[1]
           i == FindAnnotation(St, p, last.args[2])
       IN  /\ Len(annotations[p]) = 2
           /\ i = 1
           /\ annotations[p][i].type = "highlight"
           /\ annotations[p][i].data.color = "blue"
           /\ annotations[p][i].data.x2 = R(100)
           /\ annotations[p][2].data.color /= "blue"

\* a lookup of the id that was deleted finds nothing on the page
DeletedGone == ~IdPresent(last.args[1], last.args[2])

\* C13: delete on an id present on the page returns true and afterwards a
\* lookup of the id on that page finds nothing; deleting the same id again
\* returns false and changes nothing.
C13_DeleteThenNotFound ==
    [][/\ (last'.op = "delete_annotation" /\ last'.ret = TRUE) => DeletedGone'
       /\ (last'.op = "delete_annotation"
             /\ IdPresent(last'.args[1], last'.args[2])) => last'.ret = TRUE
       /\ (last.op = "delete_annotation" /\ last.ret = TRUE
             /\ last'.op = "delete_annotation" /\ last'.args = last.args)
          => /\ last'.ret = FALSE
             /\ annotations' = annotations
             /\ has_changes' = has_changes]_vars

NoSelection == ~IsSome(selected_annotation) /\ ~IsSome(selection_outline)

\* C14: after set_tool there is no selection, and a delete_selected that
\* follows it returns false and leaves the store unchanged.
C14_SetToolClearsSelection ==
    [][/\ (last.op = "set_tool" => NoSelection)'
       /\ (last.op = "set_tool" /\ last'.op = "delete_selected")
             => (last'.ret = FALSE /\ StoreUnchanged)]_vars

\* an annotation was selected when the tool was changed from View to another
C14_Witness ==
    /\ last.op = "set_tool" /\ last.had_selection
    /\ last.args[1] /= "view"
    /\ annotations[current_page] /= <<>>
    /\ NoSelection

\* C15: cancel_current_action leaves the machine in Idle(View) without a
\* selection, and never changes the annotation store.
C15_CancelForcesIdleView ==
    [][last'.op = "cancel_current_action"
          => /\ (Idle("view") /\ NoSelection)'
             /\ StoreUnchanged]_vars

\* the annotations of the current page without the first one that has the id
WithoutSelected ==
    LET id == Get(selected_annotation).id
        i == FindAnnotation(St, current_page, id)
    IN  [annotations EXCEPT ![current_page] = RemoveAt(@, i)]

\* C16: delete_selected without a selection returns false and changes
\* nothing; with a selection it removes the annotation of the current page
\* that has the selected id, and afterwards there is no selection.
C16_DeleteSelected ==
    [][last'.op = "delete_selected"
          => IF ~IsSome(selected_annotation)
             THEN /\ last'.ret = FALSE
                  /\ StoreUnchanged
                  /\ canvas' = canvas
                  /\ NoSelection'
             ELSE /\ IdPresent(current_page, Get(selected_annotation).id)
                  /\ last'.ret = TRUE
                  /\ annotations' = WithoutSelected
                  /\ NoSelection']_vars

\* the pages on which the text predicate holds for the term, the page `first`
\* first when it is one of them, the others in ascending order
RECURSIVE MatchingAfter(_, _, _)
MatchingAfter(i, first, term) ==
    IF i >= PageCount THEN <<>>
    ELSE (IF i /= first /\ Lower(term) \in {Lower(w) : w \in SeqToSet(PageText(i))}
          THEN <<i>> ELSE <<>>) \o MatchingAfter(i + 1, first, term)

Matching(first, term) ==
    (IF Lower(term) \in {Lower(w) : w \in SeqToSet(PageText(first))}
     THEN <<first>> ELSE <<>>) \o MatchingAfter(0, first, term)

\* C17: after search(term) returns, search_results lists exactly the
\* matching pages, the page that was current at the call first, the others
\* in ascending order.
C17_SearchResultsOrdered ==
    [][last'.op = "search_text"
          => search_results' = Matching(current_page, last'.args[1])]_vars

\* C18: immediately after search returns the cursor is -1.
C18_SearchResetsCursor ==
    last.op = "search_text" => current_match = -1

\* C18 as amended: after search returns the cursor is 0 when the page that
\* was current at the call matches, and -1 otherwise.
C18_SearchCursorAtFirst ==
    [][last'.op = "search_text"
          => current_match' =
                IF Matching(current_page, last'.args[1]) /= <<>>
                   /\ Head(Matching(current_page, last'.args[1])) = current_page
                THEN 0 ELSE -1]_vars

\* a search found two pages, the current one first, and the cursor is on it
C18_Witness ==
    /\ last.op = "search_text" /\ last.ret = TRUE
    /\ Len(search_results) = 2
    /\ search_results[1] = current_page
    /\ current_match = 0

ViewUnchanged ==
    /\ current_page' = current_page
    /\ zoom_level' = zoom_level
    /\ search_term' = search_term
    /\ search_results' = search_results
    /\ current_match' = current_match
    /\ canvas' = canvas

\* C19: next_match and previous_match on an empty result list return
\* failure and change nothing.
C19_EmptyResultsNoOp ==
    [][(search_results = <<>> /\ last'.op \in {"next_match", "previous_match"})
          => (last'.ret = FALSE /\ ViewUnchanged)]_vars

\* next_match failed on the empty list that a search without matches left
C19_Witness ==
    /\ last.op = "next_match" /\ last.ret = FALSE
    /\ search_term = "absent"
    /\ search_results = <<>>
    /\ current_match = -1

\* C20: the current page is always a page of the document; go_to_page
\* outside the range, next_page at the last page and previous_page at page 0
\* return failure and change nothing of the view.
C20_CurrentPageInRange ==
    [][/\ current_page' \in Pages
       /\ (last'.op = "go_to_page" /\ last'.args[1] \notin Pages)
             => (last'.ret = FALSE /\ ViewUnchanged)
       /\ (last'.op = "next_page" /\ current_page = PageCount - 1)
             => (last'.ret = FALSE /\ ViewUnchanged)
       /\ (last'.op = "previous_page" /\ current_page = 0)
             => (last'.ret = FALSE /\ ViewUnchanged)]_vars

\* go_to_page(page_count) failed on the last page with search results kept
C20_Witness ==
    /\ last.op = "go_to_page" /\ last.args[1] = PageCount
    /\ last.ret = FALSE
    /\ current_page = PageCount - 1
    /\ search_results /= <<>>

ZoomInRange(z) == RLe(MinZoom, z) /\ RLe(z, MaxZoomLevel)

Clamp(z) == RMax(RMin(z, MaxZoomLevel), MinZoom)

\* C21: the zoom is always within [min_zoom, max_zoom]; zoom_in and zoom_out
\* move it by one step, stopping exactly at the limit, and at the limit leave
\* it unchanged and report no change; set_zoom rejects a level outside the
\* range without changing the zoom; fit_to_width sets the clamped quotient
\* of the canvas width less the margin and the page width.
C21_ZoomStaysInRange ==
    /\ ZoomInRange(zoom_level)
    /\ [][/\ ZoomInRange(zoom_level')
          /\ last'.op = "zoom_in"
                => IF RLt(zoom_level, MaxZoomLevel)
                   THEN /\ last'.ret = TRUE
                        /\ zoom_level' = RMin(RAdd(zoom_level, ZoomStep), MaxZoomLevel)
                   ELSE last'.ret = FALSE /\ zoom_level' = zoom_level
          /\ last'.op = "zoom_out"
                => IF RLt(MinZoom, zoom_level)
                   THEN /\ last'.ret = TRUE
                        /\ zoom_level' = RMax(RSub(zoom_level, ZoomStep), MinZoom)
                   ELSE last'.ret = FALSE /\ zoom_level' = zoom_level
          /\ last'.op = "set_zoom"
                => IF ZoomInRange(last'.args[1])
                   THEN last'.ret = TRUE /\ zoom_level' = last'.args[1]
                   ELSE last'.ret = FALSE /\ zoom_level' = zoom_level
          /\ last'.op = "fit_to_width"
                => zoom_level' = Clamp(Rat(canvas_size[1] - FitMargin,
                                           MediaBox(current_page)[1]))]_vars

\* zoom_in ended at max_zoom and the page was drawn again at 300%
C21_Witness ==
    /\ last.op = "zoom_in" /\ last.ret = TRUE
    /\ zoom_level = MaxZoomLevel
    /\ ImageItem(St).extent[1] = R(3 * MediaBox(current_page)[1])

\* to_document and to_device of the claim, as the editor and the viewer
\* compute them from the position of the page image and the zoom
ToDocument(p) == get_page_coordinates(St, p)
ToDevice(d) ==
    <<Scaled(St, d[1], PageOffset(St)[1]), Scaled(St, d[2], PageOffset(St)[2])>>

\* where in the window the canvas shows the item: its canvas coordinates
\* less the canvas line at the top of the window
ShownAt(it) ==
    <<it.coords[1], RSub(it.coords[2], R(view_y)),
      it.coords[3], RSub(it.coords[4], R(view_y))>>

\* the rectangle that two pointer positions span
Spanned(a, b) ==
    <<R(Min({a[1], b[1]})), R(Min({a[2], b[2]})),
      R(Max({a[1], b[1]})), R(Max({a[2], b[2]}))>>

\* C22: mapping a pointer position to document coordinates and back gives
\* the position again, and a highlight stored from a pointer-down and the
\* pointer-up that follows it is shown in the window on the rectangle that
\* the two pointer positions span.
C22_RoundTrip ==
    [][/\ \A p \in DevicePoints : ToDevice(ToDocument(p)) = <<R(p[1]), R(p[2])>>
       /\ (last.op = "on_mouse_down" /\ current_tool = "highlight"
             /\ last'.op = "on_mouse_up"
             /\ Len(annotations'[current_page]) > Len(annotations[current_page]))
          => ShownAt(canvas'[Len(canvas')]) = Spanned(last.args[1], last'.args[1])]_vars

\* C23: add, update, delete and list with a page index outside the document
\* do not raise, return None, false, false and the empty sequence, and leave
\* the annotations and the unsaved-changes flag as they were.
C23_InvalidPageSilent ==
    [][(last'.op \in {"add_annotation", "update_annotation", "delete_annotation",
                      "get_annotations"}
          /\ last'.args[1] \notin Pages)
          => /\ ~last'.raised
             /\ IF last'.op = "add_annotation" THEN last'.ret = NoValue
                ELSE IF last'.op = "get_annotations" THEN last'.ret = <<>>
                ELSE last'.ret = FALSE
             /\ StoreUnchanged]_vars

\* a delete on page -1 of an id that page 0 holds failed while nothing was
\* unsaved
C23_Witness ==
    /\ last.op = "delete_annotation" /\ last.args[1] = -1
    /\ last.ret = FALSE
    /\ IdPresent(0, last.args[2])
    /\ Len(annotations[0]) = 1

\* the ids of the annotations of page p, in their order
IdsOf(p) == [i \in 1 .. Len(annotations[p]) |-> annotations[p][i].id]

\* C24: every annotation is in the sequence of the page it was made for; an
\* update, a move-drag, a page change, a search or a save leaves the
\* annotations of each page the same ones in the same order, and an add
\* appends one to the page that is current.
C24_AnnotationsStayOnPage ==
    [][\A p \in Pages :
          /\ \A i \in 1 .. Len(annotations'[p]) :
                PageOfId(annotations'[p][i].id) = Str(p)
          /\ \/ IdsOf(p)' = IdsOf(p)
             \/ /\ last'.op = "on_mouse_down"
                /\ p = current_page
                /\ Len(annotations'[p]) = Len(annotations[p]) + 1
                /\ SubSeq(IdsOf(p)', 1, Len(annotations[p])) = IdsOf(p)]_vars

\* a text annotation of the second page was dragged to another position
\* while the first page holds an annotation of its own
C24_Witness ==
    /\ last.op = "on_mouse_drag"
    /\ current_page = 1
    /\ Len(annotations[0]) = 1 /\ Len(annotations[1]) = 1
    /\ IsSome(selected_annotation)
    /\ annotations[1][1].type = "text"
    /\ annotations[1][1].data.x /= annotations[0][1].data.x

\* C25: get_page_dimensions returns the page's own width and height for a
\* page of the document and (612, 792) for every other page index, and does
\* not fail.
C25_PageDimensions ==
    last.op = "get_page_dimensions"
        => /\ ~last.raised
           /\ last.ret = IF last.args[1] \in Pages
                         THEN MediaBox(last.args[1])
                         ELSE <<612, 792>>

\* the dimensions asked for one page past the last were the default, which
\* the page on view does not have
C25_Witness ==
    /\ last.op = "get_page_dimensions" /\ last.args[1] = PageCount
    /\ last.ret = <<612, 792>>
    /\ MediaBox(current_page) /= last.ret

\* C26: a page change during a gesture leaves the machine idle with no
\* preview, and the pointer-up that follows a page change adds no annotation.
C26_PageChangeEndsGesture ==
    [][/\ (drawing /\ last'.op = "next_page" /\ last'.ret = TRUE)
             => Idle(current_tool)'
       /\ (last.op = "next_page" /\ last'.op = "on_mouse_up")
             => annotations' = annotations]_vars

\* the position, in the sequence of the current page, of the annotation that
\* the canvas item shows: the page's annotations are drawn in their order
RenderedIndex(item) ==
    Cardinality({i \in 1 .. item :
                    IsAnnotationItem(canvas[i]) /\ ~HasTag(canvas[i], "note_marker")})

\* C27: delete_selected removes the annotation whose shape the selecting
\* pointer-down hit and leaves the other annotations of the page in place.
C27_DeletesTheOneHit ==
    [][(last'.op = "delete_selected" /\ IsSome(selected_annotation)
          /\ Get(selected_annotation).item \in 1 .. Len(canvas))
          => annotations'[current_page] =
                RemoveAt(annotations[current_page],
                         RenderedIndex(Get(selected_annotation).item))]_vars

\* the step appended an annotation of the type to the current page
Persisted(type) ==
    /\ Len(annotations'[current_page]) = Len(annotations[current_page]) + 1
    /\ annotations'[current_page][Len(annotations'[current_page])].type = type

\* C28: a Drawing that a pointer-up persists holds exactly the document
\* points of the Draw gesture that the pointer-up ends, the pointer-down
\* point first and the pointer-move points after it in order; without a
\* Draw gesture under way a pointer-up persists no Drawing.
C28_DrawingHoldsItsGesture ==
    [][(last'.op = "on_mouse_up" /\ Persisted("drawing"))
          => /\ last.gesture /= <<>>
             /\ annotations'[current_page][Len(annotations'[current_page])].data.points
                   = last.gesture]_vars

\* the stored rectangle is normalized and at least the minimum in both spans
WellFormed(data) ==
    /\ RLe(data.x1, data.x2) /\ RLe(data.y1, data.y2)
    /\ RLe(R(MinSize), RSub(data.x2, data.x1))
    /\ RLe(R(MinSize), RSub(data.y2, data.y1))

\* the gesture from pointer position a to pointer position b spans less than
\* the minimum, in document units, in one of the two dimensions
SmallGesture(a, b) ==
    \/ RLt(RAbs(RSub(ToDocument(b)[1], ToDocument(a)[1])), R(MinSize))
    \/ RLt(RAbs(RSub(ToDocument(b)[2], ToDocument(a)[2])), R(MinSize))

\* C29: every stored Highlight and Shape is normalized with both spans at
\* least 5, also after move-drags, and the pointer-up of a gesture that spans
\* less than 5 in a dimension leaves the store as it was.
C29_RectanglesWellFormed ==
    [][/\ \A p \in Pages : \A i \in 1 .. Len(annotations'[p]) :
             annotations'[p][i].type \in {"highlight", "shape"}
                => WellFormed(annotations'[p][i].data)
       /\ (last'.op = "on_mouse_up" /\ IsSome(last.down)
             /\ SmallGesture(Get(last.down), last'.args[1]))
          => StoreUnchanged]_vars

\* C30: a pointer-up that ends a gesture leaves no preview and no drawing in
\* progress and keeps the current tool, whether it added an annotation or
\* not; a pointer-up while no gesture is in progress changes nothing.
C30_PointerUpReturnsToIdle ==
    [][last'.op = "on_mouse_up"
          => IF drawing
                THEN Idle(current_tool)' /\ current_tool' = current_tool
                ELSE St' = St]_vars

\* the point of the page that the window shows under pointer position p:
\* the window shows canvas line view_y at its top
DocumentPointAt(p) == get_page_coordinates(St, <<p[1], p[2] + view_y>>)

\* the step appended one annotation to the current page and left every
\* other annotation as it was
AddedOne ==
    /\ Len(annotations'[current_page]) = Len(annotations[current_page]) + 1
    /\ SubSeq(annotations'[current_page], 1, Len(annotations[current_page]))
          = annotations[current_page]
    /\ \A p \in Pages \ {current_page} : annotations'[p] = annotations[p]

\* C31: a pointer-down with the Text or Comment tool clears the selection,
\* enters no drawing state and keeps the tool; answered with a non-empty
\* string it adds exactly one annotation of that kind with that string to
\* the current page at the document point that was clicked, and answered
\* with nothing or cancelled it leaves the store as it was.
C31_TextPlacedAtClick ==
    [][(last'.op = "on_mouse_down" /\ current_tool \in {"text", "comment"})
          => /\ ~IsSome(selected_annotation')
             /\ drawing' = drawing
             /\ current_tool' = current_tool
             /\ IF IsSome(last'.args[2]) /\ Get(last'.args[2]) /= ""
                THEN /\ AddedOne
                     /\ LET new == annotations'[current_page][Len(annotations'[current_page])]
                        IN  /\ new.type = current_tool
                            /\ new.data.text = Get(last'.args[2])
                            /\ <<new.data.x, new.data.y>> = DocumentPointAt(last'.args[1])
                ELSE StoreUnchanged]_vars

\* the data of an annotation after it was moved to the document point
MovedTo(annotation, point) ==
    IF annotation.type = "shape"
    THEN [annotation.data EXCEPT
             !.x1 = point[1], !.y1 = point[2],
             !.x2 = RAdd(point[1], RSub(annotation.data.x2, annotation.data.x1)),
             !.y2 = RAdd(point[2], RSub(annotation.data.y2, annotation.data.y1))]
    ELSE [annotation.data EXCEPT !.x = point[1], !.y = point[2]]

\* C32: a pointer-move while not drawing, with a Text, Comment or Shape
\* selected, moves the annotation whose shape was selected to the document
\* point of the pointer, a Shape keeping its width and height, and changes
\* no other annotation and no other field.
C32_MoveDragMovesSelection ==
    [][(/\ last'.op = "on_mouse_drag"
        /\ ~drawing
        /\ IsSome(selected_annotation)
        /\ Get(selected_annotation).item \in 1 .. Len(canvas)
        /\ annotations[current_page][RenderedIndex(Get(selected_annotation).item)].type
              \in {"text", "comment", "shape"})
          => LET i == RenderedIndex(Get(selected_annotation).item)
             IN  annotations' =
                    [annotations EXCEPT ![current_page][i].data =
                        MovedTo(annotations[current_page][i],
                                DocumentPointAt(last'.args[1]))]]_vars

\* the shape that the selection was made on is that of a highlight
HighlightSelected ==
    /\ IsSome(selected_annotation)
    /\ HasTag(Get(selected_annotation), "highlight")

\* C33: a pointer-move while a Highlight is selected leaves every annotation
\* as it was, and no step other than a delete changes or removes a stored
\* highlight.
C33_HighlightNeverMoves ==
    [][/\ (last'.op = "on_mouse_drag" /\ ~drawing /\ HighlightSelected)
             => annotations' = annotations
       /\ last'.op /= "delete_selected"
             => \A p \in Pages : \A i \in 1 .. Len(annotations[p]) :
                   annotations[p][i].type = "highlight"
                      => /\ i <= Len(annotations'[p])
                         /\ annotations'[p][i] = annotations[p][i]]_vars

\* the annotation that a move-drag writes to is a Text, a Comment or a Shape
MovableTarget ==
    /\ IsSome(selected_annotation)
    /\ FindAnnotation(St, current_page, Get(selected_annotation).id) /= 0
    /\ annotations[current_page][FindAnnotation(St, current_page,
                                                Get(selected_annotation).id)].type
          \in {"text", "comment", "shape"}

\* C34: the unsaved-changes flag goes from false to true only in a step
\* that changed the annotations, a successful update, or a move-drag of a
\* Text, Comment or Shape.
C34_FlagSetOnlyByChanges ==
    [][(~has_changes /\ has_changes')
          => \/ annotations' /= annotations
             \/ last'.op = "update_annotation" /\ last'.ret = TRUE
             \/ last'.op = "on_mouse_drag" /\ ~drawing /\ MovableTarget]_vars

\* the operations of the viewer that change what is shown
ViewOperations ==
    {"go_to_page", "next_page", "previous_page", "zoom_in", "zoom_out",
     "set_zoom", "fit_to_width", "search_text", "next_match", "previous_match"}

\* C35: navigation, zoom and search leave the annotations of every page as
\* they were: the same kinds, data and ids in the same order.
C35_ViewChangesKeepAnnotations ==
    [][last'.op \in ViewOperations => annotations' = annotations]_vars

\* the page was fitted to the width of the window, at another zoom level
\* than 100%, while it holds a highlight
C35_Witness ==
    /\ last.op = "fit_to_width" /\ last.ret = TRUE
    /\ zoom_level /= R(1)
    /\ Len(annotations[current_page]) >= 1

\* the shape of an annotation is shown within the hit tolerance of pointer
\* position p: the window shows canvas line view_y at its top
ShapeNear(p) ==
    \E i \in 1 .. Len(canvas) :
        /\ IsAnnotationItem(canvas[i])
        /\ Overlaps(canvas[i],
                    <<R(p[1] - HitRadius), R(p[2] + view_y - HitRadius),
                      R(p[1] + HitRadius), R(p[2] + view_y + HitRadius)>>)

\* C36: a pointer-down with the View tool where no shape of an annotation is
\* within the hit tolerance leaves nothing selected; a pointer-down with
\* another tool leaves nothing selected; and what is selected is never the
\* page image, a preview or the selection marker.
C36_MissClearsSelection ==
    [][/\ (last'.op = "on_mouse_down" /\ current_tool = "view"
             /\ ~ShapeNear(last'.args[1]))
          => ~IsSome(selected_annotation')
       /\ (last'.op = "on_mouse_down" /\ current_tool /= "view")
          => ~IsSome(selected_annotation')
       /\ (IsSome(selected_annotation')
             /\ Get(selected_annotation').item \in 1 .. Len(canvas'))
          => IsAnnotationItem(canvas'[Get(selected_annotation').item])]_vars

\* C37: a gesture in progress and a selection never exist together, and a
\* pointer-move while a selection exists does what a move-drag of the
\* selection does.
C37_NoSelectionWhileDrawing ==
    [][/\ ~(drawing' /\ IsSome(selected_annotation'))
       /\ (last'.op = "on_mouse_drag" /\ IsSome(selected_annotation))
          => St' = Canonical(move_selected_annotation(St, last'.args[1]).s)]_vars

\* C38: a selection exists only while the View tool is current: only a
\* pointer-down with the View tool creates one, and every set_tool, cancel
\* and pointer-down with another tool leaves none.
C38_SelectionOnlyInView ==
    [][/\ IsSome(selected_annotation') => current_tool' = "view"
       /\ (~IsSome(selected_annotation) /\ IsSome(selected_annotation'))
          => (last'.op = "on_mouse_down" /\ current_tool = "view")
       /\ last'.op \in {"set_tool", "cancel_current_action"}
          => ~IsSome(selected_annotation')
       /\ (last'.op = "on_mouse_down" /\ current_tool /= "view")
          => ~IsSome(selected_annotation')]_vars

\* a highlight was selected when the action was cancelled
C38_Witness ==
    /\ last.op = "cancel_current_action" /\ last.had_selection
    /\ annotations[current_page] /= <<>>
    /\ ~IsSome(selected_annotation)
    /\ current_tool = "view"

\* the pages that can be read and on which the text predicate holds
ReadableMatches(term, unreadable) ==
    {p \in Pages \ unreadable :
        Lower(term) \in {Lower(w) : w \in SeqToSet(PageText(p))}}

\* C39: a search during which the text of some page cannot be read still
\* returns; it reports a match exactly when a readable page matches, lists
\* and shows no page that could not be read, and leaves the annotations,
\* the unsaved-changes flag, the selection, the tool and the drawing flag
\* as they were.
C39_SearchSurvivesUnreadablePage ==
    [][(last'.op = "search_text" /\ last'.args[2] /= {})
          => /\ ~last'.raised
             /\ last'.ret = (ReadableMatches(last'.args[1], last'.args[2]) /= {})
             /\ SeqToSet(search_results')
                   \subseteq ReadableMatches(last'.args[1], last'.args[2])
             /\ current_page' /= current_page
                   => current_page' \in ReadableMatches(last'.args[1], last'.args[2])
             /\ StoreUnchanged
             /\ current_tool' = current_tool
             /\ drawing' = drawing
             /\ IsSome(selected_annotation') = IsSome(selected_annotation)
             /\ IsSome(selected_annotation)
                   => Get(selected_annotation').id = Get(selected_annotation).id]_vars

\* a search for a word of both pages, started on the first page, which
\* cannot be read, found the second page only, while a highlight of the
\* first page is selected
C39_Witness ==
    /\ last.op = "search_text" /\ last.args = <<"page", {0}>>
    /\ last.ret = TRUE
    /\ search_results = <<1>>
    /\ current_page = 1
    /\ annotations[0] /= <<>>
    /\ IsSome(selected_annotation)

\* C40: sync_views gives the second pane the zoom level of the first and
\* its page when the second document has that page, and changes nothing in
\* the first pane; every operation of the first pane leaves the second pane
\* and its document as they were, and every operation of the second pane
\* leaves the first pane and its document as they were.
C40_SyncIsOneShot ==
    [][/\ (last'.op = "sync_views" /\ IsSome(second_view))
          => /\ Get(second_view').zoom_level = zoom_level
             /\ Get(second_view').current_page =
                    IF current_page < Get(second_view).page_count
                    THEN current_page ELSE Get(second_view).current_page
             /\ Get(second_view').annotations = Get(second_view).annotations
             /\ St' = St
       /\ last'.op \in {"sync_views", "second_toolbar", "open_second_file"}
          => St' = St
       /\ last'.op \notin {"sync_views", "second_toolbar", "open_second_file"}
          => second_view' = second_view]_vars

\* the views were synchronized while the first pane showed, zoomed in, its
\* second page, which the second document does not have; afterwards the
\* second pane was zoomed out on its own
C40_Witness ==
    /\ last.op = "second_toolbar" /\ last.args = <<"zoom_out">>
    /\ IsSome(second_view)
    /\ Get(second_view).page_count = 1
    /\ current_page = 1
    /\ zoom_level = Rat(11, 10)
    /\ Get(second_view).zoom_level = R(1)
    /\ annotations[1] /= <<>>

====
